---- MODULE Spec2Model ----
(***************************************************************************)
(* Model of the template tooling of rubixvi/templates:                     *)
(*   build-scripts/helpers.ts                 processValue,                *)
(*                                            processVariables, generators *)
(*   build-scripts/validate-docker-compose.ts DockerComposeValidator       *)
(*   validate-template (unnamed/part_000)     TemplateValidator            *)
(*                                                                         *)
(* A JavaScript string is a sequence of one-character strings.  An object  *)
(* with string keys (a Record<string, ...>) is a sequence of entries       *)
(* [k, v] in insertion order, the order Object.entries walks.  A call that *)
(* may raise returns [threw, v].                                           *)
(***************************************************************************)
EXTENDS Integers, Sequences, FiniteSets, TLC

VARIABLES
    pc,         \* which call of the program has been made last
    argValue,   \* the string handed to processValue
    argVariables, \* the variable map handed to processValue / processVariables
    argSchema,  \* the schema handed to processValue / processVariables
    seed,       \* the outcome of the random generators and of the clock
    result,     \* what the last helpers.ts call returned (or that it threw)
    files,      \* what is on disk: the parsed template.toml and docker-compose.yml
    tv,         \* the TemplateValidator instance: its errors and warnings fields
    dc,         \* the DockerComposeValidator instance: its errors and warnings fields
    report      \* the ValidationResult last returned by a validate() call

vars == <<pc, argValue, argVariables, argSchema, seed, result, files, tv, dc, report>>

----------------------------------------------------------------------------
(* Bounds of the model *)

\* number of outcomes of the random source and the clock that are explored
NumSeeds == 2

\* largest number of literal characters put before or after the expression of a
\* processValue input
MaxTail == 1

\* largest length of the processValue inputs written over the small alphabet
MaxPlain == 4

\* largest number of entries of a variable map handed to processVariables
MaxVars == 2

\* largest number of validate() calls made on one validator instance
MaxCalls == 2

\* largest number of entries of config.domains
MaxDomains == 1

\* largest number of services of a docker-compose.yml
MaxServices == 2

----------------------------------------------------------------------------
(* JavaScript strings *)

\* F applied to the value of x, with x evaluated once (a LET definition is
\* evaluated again at every use)
Eval(x, F(_)) == CHOOSE y \in {F(v) : v \in {x}} : TRUE

RECURSIVE Concat(_)
\* the concatenation of a sequence of strings
Concat(ss) == IF ss = <<>> THEN <<>> ELSE Head(ss) \o Concat(Tail(ss))

\* String.prototype.startsWith
StartsWith(s, p) == Len(s) >= Len(p) /\ SubSeq(s, 1, Len(p)) = p

\* String.prototype.endsWith
EndsWith(s, p) == Len(s) >= Len(p) /\ SubSeq(s, Len(s) - Len(p) + 1, Len(s)) = p

\* String.prototype.includes
Includes(s, p) == \E i \in 1..(Len(s) - Len(p) + 1) : SubSeq(s, i, i + Len(p) - 1) = p

\* String.prototype.slice(from) with a 0-based start inside the string
SliceFrom(s, from) == SubSeq(s, from + 1, Len(s))

\* String.prototype.split(":") : the pieces between the colons
RECURSIVE SplitColon(_)
SplitColon(s) ==
    IF \A i \in 1..Len(s) : s[i] # ":" THEN <<s>>
    ELSE LET i == CHOOSE j \in 1..Len(s) : s[j] = ":" /\ \A h \in 1..(j - 1) : s[h] # ":"
         IN  <<SubSeq(s, 1, i - 1)>> \o SplitColon(SubSeq(s, i + 1, Len(s)))

Digits == <<"0", "1", "2", "3", "4", "5", "6", "7", "8", "9">>

IsDigit(c) == \E d \in 1..10 : Digits[d] = c

DigitVal(c) == (CHOOSE d \in 1..10 : Digits[d] = c) - 1

\* the number of leading digits of s from position i on
RECURSIVE DigitRun(_, _)
DigitRun(s, i) == IF i <= Len(s) /\ IsDigit(s[i]) THEN 1 + DigitRun(s, i + 1) ELSE 0

\* the value of the all-digit string s
RECURSIVE DigitsValue(_)
DigitsValue(s) ==
    IF s = <<>> THEN 0 ELSE 10 * DigitsValue(SubSeq(s, 1, Len(s) - 1)) + DigitVal(s[Len(s)])

\* Number.prototype.toString of a non-negative integer
RECURSIVE NatToString(_)
NatToString(n) == IF n < 10 THEN <<Digits[n + 1]>> ELSE NatToString(n \div 10) \o <<Digits[(n % 10) + 1]>>

\* Number.prototype.toString of an integer
IntToString(n) == IF n < 0 THEN <<"-">> \o NatToString(0 - n) ELSE NatToString(n)

\* a JavaScript number that is either NaN or an integer
NaN == [nan |-> TRUE, n |-> 0]

Num(n) == [nan |-> FALSE, n |-> n]

\* the number of leading blanks of s (parseInt skips leading white space)
RECURSIVE BlankRun(_, _)
BlankRun(s, i) == IF i <= Len(s) /\ s[i] = " " THEN 1 + BlankRun(s, i + 1) ELSE 0

\* Number.parseInt(s, 10): white space, an optional sign, then the longest run of
\* digits; NaN when there is no digit.  s = undefined (a missing piece) gives NaN.
parseInt(s) ==
    LET b    == BlankRun(s, 1)
        neg  == b + 1 <= Len(s) /\ s[b + 1] = "-"
        sgn  == IF b + 1 <= Len(s) /\ (s[b + 1] = "-" \/ s[b + 1] = "+") THEN 1 ELSE 0
        from == b + sgn + 1
        run  == DigitRun(s, from)
        mag  == DigitsValue(SubSeq(s, from, from + run - 1))
    IN  IF run = 0 THEN NaN ELSE Num(IF neg THEN 0 - mag ELSE mag)

\* the JavaScript idiom  x || d  on numbers: NaN and 0 are falsy
OrDefault(x, d) == IF x.nan \/ x.n = 0 THEN d ELSE x.n

----------------------------------------------------------------------------
(* The regular expression /\$\{([^}]+)\}/ *)

\* the pattern with any character accepted where "$" stands
MatchEndAnyLead(s, i) ==
    IF /\ i + 3 <= Len(s)
       /\ s[i + 1] = "{"
       /\ s[i + 2] # "}"
       /\ \E k \in (i + 3)..Len(s) : s[k] = "}"
    THEN CHOOSE k \in (i + 3)..Len(s) : s[k] = "}" /\ \A h \in (i + 3)..(k - 1) : s[h] # "}"
    ELSE 0

\* the index of the closing brace of the match that starts at i, or 0 when the
\* expression does not match at i: "${", one or more characters other than "}", "}"
MatchEnd(s, i) ==
    IF /\ i + 3 <= Len(s)
       /\ s[i] = "$"
       /\ s[i + 1] = "{"
       /\ s[i + 2] # "}"
       /\ \E k \in (i + 3)..Len(s) : s[k] = "}"
    THEN CHOOSE k \in (i + 3)..Len(s) : s[k] = "}" /\ \A h \in (i + 3)..(k - 1) : s[h] # "}"
    ELSE 0

\* the start of the leftmost match at or after i, or 0
FirstMatch(s, i) ==
    IF \E j \in i..Len(s) : MatchEnd(s, j) # 0
    THEN CHOOSE j \in i..Len(s) : MatchEnd(s, j) # 0 /\ \A h \in i..(j - 1) : MatchEnd(s, h) = 0
    ELSE 0

\* String.prototype.match with the g flag: the matched texts, left to right,
\* non-overlapping
RECURSIVE MatchAll(_, _)
MatchAll(s, i) ==
    LET j == FirstMatch(s, i)
    IN  IF j = 0 THEN <<>>
        ELSE <<SubSeq(s, j, MatchEnd(s, j))>> \o MatchAll(s, MatchEnd(s, j) + 1)

\* the capture group of a matched text "${...}": what stands between the braces
Capture(m) == SubSeq(m, 3, Len(m) - 1)

----------------------------------------------------------------------------
(* Character tables *)

\* the printable ASCII characters, code 32 (space) to 126 (~); "GRAVE" stands for
\* the grave accent (code 96)
Printable ==
    <<" ", "!", "\"", "#", "$", "%", "&", "'", "(", ")", "*", "+", ",",
      "-", ".", "/", "0", "1", "2", "3", "4", "5", "6", "7", "8", "9", ":",
      ";", "<", "=", ">", "?", "@", "A", "B", "C", "D", "E", "F", "G", "H",
      "I", "J", "K", "L", "M", "N", "O", "P", "Q", "R", "S", "T", "U", "V",
      "W", "X", "Y", "Z", "[", "\\", "]", "^", "_", "GRAVE", "a", "b", "c",
      "d", "e", "f", "g", "h", "i", "j", "k", "l", "m", "n", "o", "p", "q",
      "r", "s", "t", "u", "v", "w", "x", "y", "z", "{", "|", "}", "~">>

\* the UTF-8 byte of an ASCII character (Buffer.from(string))
CharCode(c) == (CHOOSE i \in 1..Len(Printable) : Printable[i] = c) + 31

ToBytes(s) == [i \in 1..Len(s) |-> CharCode(s[i])]

HexDigits == <<"0", "1", "2", "3", "4", "5", "6", "7", "8", "9", "a", "b", "c", "d", "e", "f">>

Base64Chars ==
    <<"A", "B", "C", "D", "E", "F", "G", "H", "I", "J", "K", "L", "M", "N",
      "O", "P", "Q", "R", "S", "T", "U", "V", "W", "X", "Y", "Z", "a", "b",
      "c", "d", "e", "f", "g", "h", "i", "j", "k", "l", "m", "n", "o", "p",
      "q", "r", "s", "t", "u", "v", "w", "x", "y", "z", "0", "1", "2", "3",
      "4", "5", "6", "7", "8", "9", "+", "/">>

\* Buffer.prototype.toString("hex")
RECURSIVE ToHex(_)
ToHex(bytes) ==
    IF bytes = <<>> THEN <<>>
    ELSE <<HexDigits[(Head(bytes) \div 16) + 1], HexDigits[(Head(bytes) % 16) + 1]>>
         \o ToHex(Tail(bytes))

\* Buffer.prototype.toString("base64"): three bytes give four characters, the
\* last group is padded with "="
RECURSIVE ToBase64(_)
ToBase64(bytes) ==
    LET n  == Len(bytes)
        b1 == bytes[1]
        b2 == IF n >= 2 THEN bytes[2] ELSE 0
        b3 == IF n >= 3 THEN bytes[3] ELSE 0
        c1 == Base64Chars[(b1 \div 4) + 1]
        c2 == Base64Chars[((b1 % 4) * 16 + (b2 \div 16)) + 1]
        c3 == Base64Chars[((b2 % 16) * 4 + (b3 \div 64)) + 1]
        c4 == Base64Chars[(b3 % 64) + 1]
    IN  IF n = 0 THEN <<>>
        ELSE IF n = 1 THEN <<c1, c2, "=", "=">>
        ELSE IF n = 2 THEN <<c1, c2, c3, "=">>
        ELSE <<c1, c2, c3, c4>> \o ToBase64(SubSeq(bytes, 4, n))

\* Buffer.prototype.toString("base64url"): "-" and "_" for "+" and "/", no padding
ToBase64Url(bytes) ==
    LET b == ToBase64(bytes)
        u == [i \in 1..Len(b) |-> IF b[i] = "+" THEN "-" ELSE IF b[i] = "/" THEN "_" ELSE b[i]]
    IN  SelectSeq(u, LAMBDA c : c # "=")

----------------------------------------------------------------------------
(* The random source and the clock *)

Seeds == 0..(NumSeeds - 1)

\* one draw of the random source, in 0..(m - 1): what Math.random and randomBytes
\* give at the call site `salt` under the outcome `sd`
Rnd(sd, salt, m) == (sd * 31 + salt * 17 + sd * salt + 5) % m

\* crypto.randomBytes(n): throws a RangeError for a size below 0 or above 2^31 - 1
randomBytes(n, sd, salt) ==
    IF n < 0 \/ n > 2147483647 THEN [threw |-> TRUE, v |-> <<>>]
    ELSE [threw |-> FALSE, v |-> [i \in 1..n |-> Rnd(sd, salt + i, 256)]]

\* Date.now(), as whole seconds and the milliseconds within the second
NowSeconds(sd) == 1700000000 + sd

NowMillis(sd) == (sd * 617 + 499) % 1000

Pad3(n) == IF n < 10 THEN <<"0", "0">> \o NatToString(n)
           ELSE IF n < 100 THEN <<"0">> \o NatToString(n) ELSE NatToString(n)

\* Date.now().toString()
NowMsString(sd) == NatToString(NowSeconds(sd)) \o Pad3(NowMillis(sd))

\* Math.round(Date.now() / 1000).toString()
NowSecString(sd) == NatToString(NowSeconds(sd) + (IF NowMillis(sd) >= 500 THEN 1 ELSE 0))

----------------------------------------------------------------------------
(* JavaScript values *)

\* s: the text String() gives; j: the text JSON.stringify gives for an object
Undefined == [t |-> "undefined", s |-> <<>>, n |-> 0, b |-> FALSE, j |-> <<>>]

Str(s) == [t |-> "string", s |-> s, n |-> 0, b |-> FALSE, j |-> <<>>]

NumV(n) == [t |-> "number", s |-> <<>>, n |-> n, b |-> FALSE, j |-> <<>>]

BoolV(b) == [t |-> "boolean", s |-> <<>>, n |-> 0, b |-> b, j |-> <<>>]

\* a built-in function, s its source text as String() gives it
Fn(name) ==
    [t |-> "function",
     s |-> <<"f", "u", "n", "c", "t", "i", "o", "n", " ">> \o name
           \o <<"(", ")", " ", "{", " ", "[", "n", "a", "t", "i", "v", "e", " ", "c", "o",
                "d", "e", "]", " ", "}">>,
     n |-> 0, b |-> FALSE, j |-> <<>>]

\* null (typeof null is "object")
Null == [t |-> "null", s |-> <<"n", "u", "l", "l">>, n |-> 0, b |-> FALSE, j |-> <<>>]

\* an object whose JSON text is j
ObjOf(j) ==
    [t |-> "object",
     s |-> <<"[", "o", "b", "j", "e", "c", "t", " ", "O", "b", "j", "e", "c", "t", "]">>,
     n |-> 0, b |-> FALSE, j |-> j]

\* Object.prototype: an object with no enumerable property
Obj == ObjOf(<<"{", "}">>)

\* the typeof operator
TypeOf(v) == IF v.t = "null" THEN "object" ELSE v.t

\* ToBoolean
Truthy(v) ==
    CASE v.t = "undefined" -> FALSE
      [] v.t = "null"      -> FALSE
      [] v.t = "string"    -> v.s # <<>>
      [] v.t = "number"    -> v.n # 0
      [] v.t = "boolean"   -> v.b
      [] OTHER             -> TRUE

\* ToString, as String.prototype.replace applies it to what its callback returns
ToStr(v) ==
    CASE v.t = "string"  -> v.s
      [] v.t = "number"  -> IntToString(v.n)
      [] v.t = "boolean" -> IF v.b THEN <<"t", "r", "u", "e">> ELSE <<"f", "a", "l", "s", "e">>
      [] v.t = "undefined" -> <<"u", "n", "d", "e", "f", "i", "n", "e", "d">>
      [] OTHER           -> v.s

\* the function-valued properties every object literal inherits from Object.prototype
PrototypeMethods ==
    { <<"c", "o", "n", "s", "t", "r", "u", "c", "t", "o", "r">>,
      <<"t", "o", "S", "t", "r", "i", "n", "g">>,
      <<"v", "a", "l", "u", "e", "O", "f">>,
      <<"h", "a", "s", "O", "w", "n", "P", "r", "o", "p", "e", "r", "t", "y">>,
      <<"i", "s", "P", "r", "o", "t", "o", "t", "y", "p", "e", "O", "f">>,
      <<"p", "r", "o", "p", "e", "r", "t", "y", "I", "s", "E", "n", "u", "m", "e", "r", "a",
        "b", "l", "e">>,
      <<"t", "o", "L", "o", "c", "a", "l", "e", "S", "t", "r", "i", "n", "g">> }

\* whether the map has an own property k
HasKey(m, k) == \E i \in 1..Len(m) : m[i].k = k

\* the own property k of the map
OwnValue(m, k) == m[CHOOSE i \in 1..Len(m) : m[i].k = k].v

\* the keys of a map, in Object.entries order
Keys(m) == [i \in 1..Len(m) |-> m[i].k]

\* the property read  m[k]  on an object literal: the own property, else what
\* Object.prototype provides, else undefined
PropGet(m, k) ==
    IF HasKey(m, k) THEN OwnValue(m, k)
    ELSE IF k \in PrototypeMethods THEN
        Fn(IF k = <<"c", "o", "n", "s", "t", "r", "u", "c", "t", "o", "r">>
           THEN <<"O", "b", "j", "e", "c", "t">> ELSE k)
    ELSE IF k = <<"_", "_", "p", "r", "o", "t", "o", "_", "_">> THEN Obj
    ELSE Undefined

\* the assignment  m[k] = v  on an object literal: an own key keeps its place;
\* assigning a string to __proto__ runs the inherited setter, which ignores it
PropSet(m, k, v) ==
    IF k = <<"_", "_", "p", "r", "o", "t", "o", "_", "_">> THEN m
    ELSE IF HasKey(m, k) THEN [i \in 1..Len(m) |-> IF m[i].k = k THEN [k |-> k, v |-> v] ELSE m[i]]
    ELSE Append(m, [k |-> k, v |-> v])

\* String.prototype.toLowerCase on ASCII
ToLower(s) ==
    [i \in 1..Len(s) |->
        IF \E j \in 34..59 : Printable[j] = s[i]
        THEN Printable[(CHOOSE j \in 34..59 : Printable[j] = s[i]) + 32]
        ELSE s[i]]

\* String.prototype.trimStart / trimEnd on blanks
RECURSIVE TrimStart(_)
TrimStart(s) == IF s # <<>> /\ Head(s) = " " THEN TrimStart(Tail(s)) ELSE s

RECURSIVE TrimEnd(_)
TrimEnd(s) == IF s # <<>> /\ s[Len(s)] = " " THEN TrimEnd(SubSeq(s, 1, Len(s) - 1)) ELSE s

----------------------------------------------------------------------------
(* JSON.parse of an object literal *)

\* the end of the JSON value that starts at i (a number without leading zero, or
\* a string without escapes), or 0
JsonValueEnd(s, i) ==
    IF i > Len(s) THEN 0
    ELSE IF s[i] = "\"" THEN
        IF \E k \in (i + 1)..Len(s) : s[k] = "\""
        THEN CHOOSE k \in (i + 1)..Len(s) : s[k] = "\"" /\ \A h \in (i + 1)..(k - 1) : s[h] # "\""
        ELSE 0
    ELSE IF IsDigit(s[i]) THEN
        IF s[i] = "0" /\ DigitRun(s, i) > 1 THEN 0 ELSE i + DigitRun(s, i) - 1
    ELSE 0

\* whether s from i on is  "key":value  members separated by commas, up to the
\* closing brace that ends s
RECURSIVE JsonMembers(_, _)
JsonMembers(s, i) ==
    LET ke == IF i <= Len(s) /\ s[i] = "\"" THEN JsonValueEnd(s, i) ELSE 0
        ve == IF ke # 0 /\ ke + 1 <= Len(s) /\ s[ke + 1] = ":" THEN JsonValueEnd(s, ke + 2) ELSE 0
    IN  /\ ve # 0
        /\ ve + 1 <= Len(s)
        /\ \/ s[ve + 1] = "}" /\ ve + 1 = Len(s)
           \/ s[ve + 1] = "," /\ JsonMembers(s, ve + 2)

\* JSON.parse(s) for the object texts of the model: the parsed object, or that the
\* call threw a SyntaxError
JsonParse(s) ==
    LET body == TrimEnd(TrimStart(s))
        ok   == /\ Len(body) >= 2
                /\ Head(body) = "{"
                /\ \/ body = <<"{", "}">>
                   \/ JsonMembers(body, 2)
    IN  IF ok THEN [threw |-> FALSE, v |-> ObjOf(body)] ELSE [threw |-> TRUE, v |-> Undefined]

\* JSON.stringify of a payload object
JsonStringify(v) == v.j

----------------------------------------------------------------------------
(* helpers.ts: the generators *)

Ok(s) == [threw |-> FALSE, v |-> s]

Threw == [threw |-> TRUE, v |-> <<>>]

\* interface Schema: domain is "" when the schema has no (or an empty) domain
EmptySchema == [domain |-> <<>>]

\* generateRandomDomain(schema)
generateRandomDomain(schema, sd, salt) ==
    LET random == randomBytes(8, sd, salt)
    IN  IF schema.domain # <<>> THEN Ok(schema.domain)
        ELSE Ok(<<"a", "p", "p", "-">> \o ToHex(random.v)
                \o <<".", "e", "x", "a", "m", "p", "l", "e", ".", "c", "o", "m">>)

\* generateBase64(length)
generateBase64(length, sd, salt) ==
    LET bytes == randomBytes(length, sd, salt)
    IN  IF bytes.threw THEN Threw ELSE Ok(ToBase64(bytes.v))

PasswordCharset ==
    <<"a", "b", "c", "d", "e", "f", "g", "h", "i", "j", "k", "l", "m", "n",
      "o", "p", "q", "r", "s", "t", "u", "v", "w", "x", "y", "z", "A", "B",
      "C", "D", "E", "F", "G", "H", "I", "J", "K", "L", "M", "N", "O", "P",
      "Q", "R", "S", "T", "U", "V", "W", "X", "Y", "Z", "0", "1", "2", "3",
      "4", "5", "6", "7", "8", "9", "!", "@", "#", "$", "%", "^", "&", "*">>

\* the loop run with  i <= length
generatePasswordOffByOne(length, sd, salt) ==
    [i \in 1..(length + 1) |-> PasswordCharset[Rnd(sd, salt + i, Len(PasswordCharset)) + 1]]

\* generatePassword(length): one character per round of  for (i = 0; i < length; i++)
generatePassword(length, sd, salt) ==
    [i \in 1..length |-> PasswordCharset[Rnd(sd, salt + i, Len(PasswordCharset)) + 1]]

\* generateHash(length)
generateHash(length, sd, salt) ==
    LET bytes == randomBytes(length, sd, salt)
    IN  IF bytes.threw THEN Threw ELSE Ok(ToHex(bytes.v))

\* the base64url text of the fixed header {"alg":"HS256","typ":"JWT"}
JwtHeader ==
    ToBase64Url(ToBytes(<<"{", "\"", "a", "l", "g", "\"", ":", "\"", "H", "S", "2", "5", "6",
                          "\"", ",", "\"", "t", "y", "p", "\"", ":", "\"", "J", "W", "T",
                          "\"", "}">>))

\* generateJwt(options): options.length, options.secret and options.payload are
\* JavaScript values, Undefined when the option is not given
generateJwt(length, secret, payload, sd, salt) ==
    LET legacy    == randomBytes(length.n, sd, salt)
        thePayload == IF Truthy(payload) THEN payload ELSE Obj
        theSecret == IF Truthy(secret) THEN secret ELSE Str(generatePassword(32, sd, salt))
        body      == ToBase64Url(ToBytes(JsonStringify(thePayload)))
        signature == ToBase64Url(ToBytes(theSecret.s))
    IN  IF Truthy(length) THEN (IF legacy.threw THEN Threw ELSE Ok(ToHex(legacy.v)))
        \* Buffer.from of a value that is no string (a function, an object) throws
        ELSE IF theSecret.t # "string" THEN Threw
        ELSE Ok(JwtHeader \o <<".">> \o body \o <<".">>
                \o SubSeq(signature, 1, IF Len(signature) < 32 THEN Len(signature) ELSE 32))

\* crypto.randomUUID(): 8-4-4-4-12 hexadecimal digits, version 4, variant 8..b
randomUUID(sd, salt) ==
    [i \in 1..36 |->
        IF i \in {9, 14, 19, 24} THEN "-"
        ELSE IF i = 15 THEN "4"
        ELSE IF i = 20 THEN HexDigits[9 + Rnd(sd, salt + i, 4)]
        ELSE HexDigits[Rnd(sd, salt + i, 16) + 1]]

----------------------------------------------------------------------------
(* new Date(text).getTime() *)

\* leap years up to and including year y
LeapsUpTo(y) == (y \div 4) - (y \div 100) + (y \div 400)

\* days from 1970-01-01 to the first of January of the year
DaysFromEpoch(year) == 365 * (year - 1970) + LeapsUpTo(year - 1) - LeapsUpTo(1969)

\* the decimal digits of  ds * k + carry  (schoolbook multiplication)
RECURSIVE TimesSmall(_, _, _)
TimesSmall(ds, k, carry) ==
    IF ds = <<>> THEN (IF carry = 0 THEN <<>> ELSE NatToString(carry))
    ELSE LET d == DigitVal(ds[Len(ds)]) * k + carry
         IN  TimesSmall(SubSeq(ds, 1, Len(ds) - 1), k, d \div 10) \o <<Digits[(d % 10) + 1]>>

\* new Date(text).getTime(): the ISO-8601 year form "YYYY" is midnight UTC of the
\* first of January; a text without any digit is an Invalid Date; for any other
\* text the result is implementation-defined (the engine's fallback parser), here
\* one of: Invalid Date, or the first of January 2001
DateGetTime(text, sd) ==
    IF Len(text) = 4 /\ DigitRun(text, 1) = 4
        THEN [nan |-> FALSE, days |-> DaysFromEpoch(DigitsValue(text))]
    ELSE IF \A i \in 1..Len(text) : ~IsDigit(text[i]) THEN [nan |-> TRUE, days |-> 0]
    ELSE IF Rnd(sd, Len(text), 2) = 0 THEN [nan |-> TRUE, days |-> 0]
    ELSE [nan |-> FALSE, days |-> DaysFromEpoch(2001)]

\* the decimal text of  days * 864 * 10^zeros: a day is 86400 s, 86400000 ms
DaysToString(days, zeros) ==
    LET mag == TimesSmall(NatToString(IF days < 0 THEN 0 - days ELSE days), 864, 0)
    IN  IF days = 0 THEN <<"0">>
        ELSE (IF days < 0 THEN <<"-">> ELSE <<>>) \o mag \o [i \in 1..zeros |-> "0"]

\* new Date(text).getTime().toString()
DateMsString(text, sd) ==
    LET d == DateGetTime(text, sd)
    IN  IF d.nan THEN <<"N", "a", "N">> ELSE DaysToString(d.days, 5)

\* Math.round(new Date(text).getTime() / 1000).toString()
DateSecString(text, sd) ==
    LET d == DateGetTime(text, sd)
    IN  IF d.nan THEN <<"N", "a", "N">> ELSE DaysToString(d.days, 2)

----------------------------------------------------------------------------
(* helpers.ts: processValue *)

W_domain == <<"d", "o", "m", "a", "i", "n">>

W_base64 == <<"b", "a", "s", "e", "6", "4">>

W_password == <<"p", "a", "s", "s", "w", "o", "r", "d">>

W_hash == <<"h", "a", "s", "h">>

W_uuid == <<"u", "u", "i", "d">>

W_timestamp == <<"t", "i", "m", "e", "s", "t", "a", "m", "p">>

W_timestampms == <<"t", "i", "m", "e", "s", "t", "a", "m", "p", "m", "s">>

W_timestamps == <<"t", "i", "m", "e", "s", "t", "a", "m", "p", "s">>

W_randomPort == <<"r", "a", "n", "d", "o", "m", "P", "o", "r", "t">>

W_jwt == <<"j", "w", "t">>

W_username == <<"u", "s", "e", "r", "n", "a", "m", "e">>

W_email == <<"e", "m", "a", "i", "l">>

\* the text  ${body}
Expr(body) == <<"$", "{">> \o body \o <<"}">>

adjectives ==
    << <<"c", "o", "o", "l">>, <<"s", "m", "a", "r", "t">>, <<"f", "a", "s", "t">>,
       <<"q", "u", "i", "c", "k">>, <<"s", "u", "p", "e", "r">>, <<"m", "e", "g", "a">> >>

nouns ==
    << <<"u", "s", "e", "r">>, <<"a", "d", "m", "i", "n">>, <<"d", "e", "v">>,
       <<"t", "e", "s", "t">>, <<"d", "e", "m", "o">>, <<"g", "u", "e", "s", "t">> >>

emailDomains ==
    << <<"e", "x", "a", "m", "p", "l", "e", ".", "c", "o", "m">>,
       <<"t", "e", "s", "t", ".", "c", "o", "m">>,
       <<"d", "e", "m", "o", ".", "o", "r", "g">> >>

\* the jwt: branch of the first replace, helpers.ts lines 141-172
jwtWithParams(varName, variables, sd, salt) ==
    LET params  == Tail(SplitColon(varName))
        legacy  == /\ Len(params) = 1
                   /\ params[1] # <<>>
                   /\ Len(params[1]) <= 3
                   /\ DigitRun(params[1], 1) = Len(params[1])
        secret  == Str(params[1])
        payload0 == IF Len(params) >= 2 THEN Str(params[2]) ELSE Undefined
        payload == IF payload0.t = "string" /\ Truthy(PropGet(variables, payload0.s))
                   THEN PropGet(variables, payload0.s) ELSE payload0
        parsed1 == IF /\ payload.t = "string"
                      /\ StartsWith(TrimStart(payload.s), <<"{">>)
                      /\ EndsWith(TrimEnd(payload.s), <<"}">>)
                   THEN (IF JsonParse(payload.s).threw THEN Undefined ELSE JsonParse(payload.s).v)
                   ELSE Undefined
        \* lines 163-167 assign parsedPayload again, whatever JSON.parse gave
        parsedPayload == IF payload.t # "object" THEN Undefined ELSE payload
        secretArg == IF Truthy(secret)
                     THEN (IF Truthy(PropGet(variables, secret.s))
                           THEN PropGet(variables, secret.s) ELSE secret)
                     ELSE Undefined
    IN  IF legacy THEN generateJwt(NumV(parseInt(params[1]).n), Undefined, Undefined, sd, salt)
        ELSE generateJwt(Undefined, secretArg, parsedPayload, sd, salt)

RECURSIVE processValue(_, _, _, _, _)

\* the callback of the first replace, helpers.ts lines 84-194: match is the whole
\* "${...}" text, varName its capture group
\* the callback without the helper dispatch: the lookup of lines 192-193 alone
firstReplaceCallbackLookupOnly(match, varName, variables, schema, sd, salt) ==
    IF Truthy(PropGet(variables, varName)) THEN Ok(ToStr(PropGet(variables, varName)))
    ELSE Ok(match)

firstReplaceCallback(match, varName, variables, schema, sd, salt) ==
    IF varName = W_domain THEN generateRandomDomain(schema, sd, salt)
    ELSE IF varName = W_base64 THEN generateBase64(32, sd, salt)
    ELSE IF StartsWith(varName, W_base64 \o <<":">>) THEN
        generateBase64(OrDefault(parseInt(SplitColon(varName)[2]), 32), sd, salt)
    ELSE IF StartsWith(varName, W_password \o <<":">>) THEN
        Ok(generatePassword(OrDefault(parseInt(SplitColon(varName)[2]), 16), sd, salt))
    ELSE IF varName = W_password THEN Ok(generatePassword(16, sd, salt))
    ELSE IF StartsWith(varName, W_hash \o <<":">>) THEN
        generateHash(OrDefault(parseInt(SplitColon(varName)[2]), 8), sd, salt)
    ELSE IF varName = W_hash THEN generateHash(8, sd, salt)
    ELSE IF varName = W_uuid THEN Ok(randomUUID(sd, salt))
    ELSE IF varName = W_timestamp \/ varName = W_timestampms THEN Ok(NowMsString(sd))
    ELSE IF varName = W_timestamps THEN Ok(NowSecString(sd))
    ELSE IF StartsWith(varName, W_timestampms \o <<":">>) THEN
        Ok(DateMsString(SliceFrom(varName, 12), sd))
    ELSE IF StartsWith(varName, W_timestamps \o <<":">>) THEN
        Ok(DateSecString(SliceFrom(varName, 11), sd))
    ELSE IF varName = W_randomPort THEN Ok(NatToString(Rnd(sd, salt, 65535)))
    ELSE IF varName = W_jwt THEN generateJwt(Undefined, Undefined, Undefined, sd, salt)
    ELSE IF StartsWith(varName, W_jwt \o <<":">>) THEN jwtWithParams(varName, variables, sd, salt)
    ELSE IF varName = W_username THEN
        Ok(ToLower(adjectives[Rnd(sd, salt, Len(adjectives)) + 1]
                   \o nouns[Rnd(sd, salt + 1, Len(nouns)) + 1]
                   \o NatToString(Rnd(sd, salt + 2, 1000))))
    ELSE IF varName = W_email THEN
        LET username == processValue(Expr(W_username), variables, schema, sd, salt + 3)
            domain   == emailDomains[Rnd(sd, salt + 7, Len(emailDomains)) + 1]
        IN  IF username.threw THEN Threw
            ELSE Ok(ToLower(username.v \o <<"@">> \o domain))
    \* if not a utility function, try to get from variables
    ELSE IF Truthy(PropGet(variables, varName)) THEN Ok(ToStr(PropGet(variables, varName)))
    ELSE Ok(match)

\* the callback of the second replace, helpers.ts lines 197-199
secondReplaceCallback(match, varName, variables) ==
    IF Truthy(PropGet(variables, varName)) THEN ToStr(PropGet(variables, varName)) ELSE match

\* value.replace(/\${([^}]+)}/g, first callback) from position i on: the matches
\* are found left to right in the original text, what a callback returns is not
\* scanned again; a callback that throws ends the call
RECURSIVE firstReplace(_, _, _, _, _, _)
firstReplace(s, i, variables, schema, sd, salt) ==
    LET j == FirstMatch(s, i)
        e == MatchEnd(s, j)
        m == SubSeq(s, j, e)
    IN  IF j = 0 THEN Ok(SubSeq(s, i, Len(s)))
        ELSE Eval(firstReplaceCallback(m, Capture(m), variables, schema, sd, salt + j),
                  LAMBDA r :
             Eval(firstReplace(s, e + 1, variables, schema, sd, salt), LAMBDA rest :
                  IF r.threw \/ rest.threw THEN Threw
                  ELSE Ok(SubSeq(s, i, j - 1) \o r.v \o rest.v)))

\* processedValue.replace(/\${([^}]+)}/g, second callback) from position i on
RECURSIVE secondReplace(_, _, _)
secondReplace(s, i, variables) ==
    LET j == FirstMatch(s, i)
    IN  IF j = 0 THEN SubSeq(s, i, Len(s))
        ELSE LET e == MatchEnd(s, j)
                 m == SubSeq(s, j, e)
             IN  SubSeq(s, i, j - 1) \o secondReplaceCallback(m, Capture(m), variables)
                 \o secondReplace(s, e + 1, variables)

\* processValue(value, variables, schema): [threw, v]
processValue(value, variables, schema, sd, salt) ==
    IF value = <<>> THEN Ok(value)
    ELSE Eval(firstReplace(value, 1, variables, schema, sd, salt), LAMBDA first :
              IF first.threw THEN Threw ELSE Ok(secondReplace(first.v, 1, variables)))

----------------------------------------------------------------------------
(* helpers.ts: processVariables *)

\* value.match(/\${<word>:(\d+)}/): the capture group of the leftmost place where
\* "${<word>:", one or more digits and "}" stand, or <<>> when there is no match
DigitsMatch(s, word) ==
    LET pre  == <<"$", "{">> \o word \o <<":">>
        at(i) == /\ i + Len(pre) - 1 <= Len(s)
                 /\ SubSeq(s, i, i + Len(pre) - 1) = pre
                 /\ DigitRun(s, i + Len(pre)) >= 1
                 /\ i + Len(pre) + DigitRun(s, i + Len(pre)) <= Len(s)
                 /\ s[i + Len(pre) + DigitRun(s, i + Len(pre))] = "}"
    IN  IF \E i \in 1..Len(s) : at(i)
        THEN LET i == CHOOSE j \in 1..Len(s) : at(j) /\ \A h \in 1..(j - 1) : ~at(h)
             IN  SubSeq(s, i + Len(pre), i + Len(pre) + DigitRun(s, i + Len(pre)) - 1)
        ELSE <<>>

\* match?.[1] ? Number.parseInt(match[1], 10) : dflt
MatchedLength(s, word, dflt) ==
    IF DigitsMatch(s, word) # <<>> THEN parseInt(DigitsMatch(s, word)).n ELSE dflt

\* the body of the first loop, helpers.ts lines 214-236: what is stored in
\* processed[key] for a string value
firstPassValue(val, schema, sd, salt) ==
    IF val = Expr(W_domain) THEN generateRandomDomain(schema, sd, salt)
    ELSE IF StartsWith(val, <<"$", "{">> \o W_base64 \o <<":">>) THEN
        generateBase64(MatchedLength(val, W_base64, 32), sd, salt)
    ELSE IF StartsWith(val, <<"$", "{">> \o W_password \o <<":">>) THEN
        Ok(generatePassword(MatchedLength(val, W_password, 16), sd, salt))
    ELSE IF val = Expr(W_hash) THEN generateHash(8, sd, salt)
    ELSE IF StartsWith(val, <<"$", "{">> \o W_hash \o <<":">>) THEN
        generateHash(MatchedLength(val, W_hash, 8), sd, salt)
    ELSE Ok(val)

\* the first pass over Object.entries(variables) from entry i on; entries whose
\* value is not a string are skipped
RECURSIVE firstPass(_, _, _, _, _)
firstPass(variables, i, processed, schema, sd) ==
    IF i > Len(variables) THEN [threw |-> FALSE, v |-> processed]
    ELSE IF variables[i].v.t # "string" THEN firstPass(variables, i + 1, processed, schema, sd)
    ELSE Eval(firstPassValue(variables[i].v.s, schema, sd, 64 * i), LAMBDA r :
              IF r.threw THEN [threw |-> TRUE, v |-> processed]
              ELSE Eval(PropSet(processed, variables[i].k, Str(r.v)), LAMBDA p :
                        firstPass(variables, i + 1, p, schema, sd)))

\* the second pass over the entries the first pass left (entries is the array
\* Object.entries(processed) returned before the loop), from entry i on; each
\* value is resolved against the map as it is at that moment
RECURSIVE secondPass(_, _, _, _, _)
secondPass(entries, i, processed, schema, sd) ==
    IF i > Len(entries) THEN [threw |-> FALSE, v |-> processed]
    ELSE Eval(processValue(entries[i].v.s, processed, schema, sd, 64 * i + 32), LAMBDA r :
              IF r.threw THEN [threw |-> TRUE, v |-> processed]
              ELSE Eval(PropSet(processed, entries[i].k, Str(r.v)), LAMBDA p :
                        secondPass(entries, i + 1, p, schema, sd)))

\* the object both passes write to, named as the caller's map instead
processedIsVariables(variables) == [alias |-> TRUE, map |-> variables]

\* const processed: Record<string, string> = {}, line 211: the object both passes
\* write to is a new, empty one, not the object the caller passed (alias)
newProcessed(variables) == [alias |-> FALSE, map |-> <<>>]

\* processVariables(variables, schema): [threw, v], v the map returned
processVariables(variables, schema, sd) ==
    Eval(firstPass(variables, 1, newProcessed(variables).map, schema, sd), LAMBDA p1 :
         IF p1.threw THEN p1 ELSE secondPass(p1.v, 1, p1.v, schema, sd))

\* the caller's map after processVariables(variables, schema): every assignment of
\* lines 217-240 is to processed, so the caller's object holds what it held unless
\* processed is that object
variablesAfter(variables, schema, sd) ==
    IF newProcessed(variables).alias THEN processVariables(variables, schema, sd).v
    ELSE variables

----------------------------------------------------------------------------
(* Both validators: the errors and warnings fields and the messages pushed *)

\* one message: the template text it is built from (code) and what is
\* interpolated into it: an index, a text, a list of texts
Msg(code, idx, text, extra) == [code |-> code, idx |-> idx, text |-> text, extra |-> extra]

\* the message pushed to the warnings instead
errorIntoWarnings(L, m) == [L EXCEPT !.warnings = Append(@, m)]

\* this.error(message): errors.push ; L is [errors, warnings]
error(L, m) == [L EXCEPT !.errors = Append(@, m)]

\* the message pushed on the errors instead
warningIntoErrors(L, m) == [L EXCEPT !.errors = Append(@, m)]

\* this.warning(message): warnings.push
warning(L, m) == [L EXCEPT !.warnings = Append(@, m)]

\* whether a message with this code is in the list
HasCode(msgs, code) == \E i \in 1..Len(msgs) : msgs[i].code = code

\* how many messages of the list have this code
CountCode(msgs, code) == Cardinality({i \in 1..Len(msgs) : msgs[i].code = code})

----------------------------------------------------------------------------
(* TemplateValidator.validateHelper *)

validHelpers ==
    { W_domain, W_base64, W_password, W_hash, W_uuid, W_timestamp, W_timestampms,
      W_timestamps, W_randomPort, W_jwt, W_username, W_email }

\* params.join(":")
RECURSIVE JoinColon(_)
JoinColon(ps) ==
    IF ps = <<>> THEN <<>>
    ELSE IF Len(ps) = 1 THEN ps[1]
    ELSE ps[1] \o <<":">> \o JoinColon(Tail(ps))

\* validateHelper(helper, context), lines 93-160; sd decides what the engine's
\* Date parser makes of a text that is no ISO date
validateHelper(L, helper, ctx, sd) ==
    LET parts      == SplitColon(helper)
        helperName == parts[1]
        params     == Tail(parts)
        datetime   == JoinColon(params)
    IN  IF ~Includes(helper, <<":">>) THEN L
        ELSE IF helperName \notin validHelpers THEN L
        ELSE IF helperName \in {W_base64, W_password, W_hash} THEN
            IF params[1] # <<>> /\ parseInt(params[1]).nan
            THEN warning(L, Msg("helperInvalidParameter", 0, ctx, <<helper>>))
            ELSE L
        ELSE IF helperName \in {W_timestampms, W_timestamps} THEN
            IF datetime # <<>> /\ DateGetTime(datetime, sd).nan
            THEN warning(L, Msg("helperInvalidDatetime", 0, ctx, <<helper>>))
            ELSE L
        ELSE L

\* the loop  while ((match = helperPattern.exec(text)) !== null) validateHelper(...)
RECURSIVE validateHelpersIn(_, _, _, _, _)
validateHelpersIn(L, matches, i, ctx, sd) ==
    IF i > Len(matches) THEN L
    ELSE validateHelpersIn(validateHelper(L, Capture(matches[i]), ctx, sd), matches, i + 1, ctx, sd)

----------------------------------------------------------------------------
(* TemplateValidator.validateTemplate, part_000 lines 200-494                *)
(*                                                                           *)
(* The parsed template.toml (interface TemplateData) is a record             *)
(*   hasConfig                  whether data.config is there                 *)
(*   domains, mounts            [kind: "absent" | "notArray" | "array",      *)
(*                               items: the array]                           *)
(*   env                        [kind: "absent" | "array" | "object" |       *)
(*                               "other", items: the array or the entries]   *)
(*   variables                  [kind: "absent" | "notObject" | "object",    *)
(*                               entries: the map]                           *)
(* "absent" also stands for a falsy value where the code tests truthiness;   *)
(* a domain is [serviceName, port, host], a mount [filePath, content], all   *)
(* JavaScript values.                                                        *)
(***************************************************************************)

\* domain.port.replace(/_/g, "")
StripUnderscores(s) == SelectSeq(s, LAMBDA c : c # "_")

\* Number(port) of the port as written, a string not parsed before
portNumberUnparsed(port) ==
    CASE port.t = "string"  -> IF port.s # <<>> /\ DigitRun(port.s, 1) = Len(port.s)
                               THEN Num(DigitsValue(port.s)) ELSE NaN
      [] port.t = "number"  -> Num(port.n)
      [] port.t = "boolean" -> Num(IF port.b THEN 1 ELSE 0)
      [] OTHER              -> NaN

\* Number(port) after lines 252-254: NaN, or the integer
portNumber(port) ==
    CASE port.t = "string"  -> parseInt(StripUnderscores(port.s))
      [] port.t = "number"  -> Num(port.n)
      [] port.t = "boolean" -> Num(IF port.b THEN 1 ELSE 0)
      [] OTHER              -> NaN

\* the name compared with the first service only
includesServiceFirstOnly(composeServices, serviceName) ==
    serviceName.t = "string" /\ composeServices[1] = serviceName.s

\* composeServices.includes(domain.serviceName), line 242
includesService(composeServices, serviceName) ==
    \E i \in 1..Len(composeServices) :
        serviceName.t = "string" /\ composeServices[i] = serviceName.s

\* the body of data.config.domains.forEach, lines 232-278, for the domain at the
\* 0-based index idx
validateDomain(L, domain, idx, composeServices, sd) ==
    LET L1 == IF ~Truthy(domain.serviceName)
              THEN error(L, Msg("domainMissingServiceName", idx, <<>>, <<>>)) ELSE L
        L2 == IF domain.port.t \in {"undefined", "null"}
              THEN error(L1, Msg("domainMissingPort", idx, <<>>, <<>>)) ELSE L1
        L3 == IF /\ Truthy(domain.serviceName)
                 /\ Len(composeServices) > 0
                 /\ ~includesService(composeServices, domain.serviceName)
              THEN error(L2, Msg("domainServiceNotFound", idx, ToStr(domain.serviceName),
                                 composeServices))
              ELSE L2
        pn == portNumber(domain.port)
        L4 == IF /\ domain.port.t \notin {"undefined", "null"}
                 /\ (pn.nan \/ pn.n < 1 \/ pn.n > 65535)
              THEN warning(L3, Msg("domainPortInvalid", idx, ToStr(domain.port), <<>>)) ELSE L3
    IN  IF Truthy(domain.host) /\ domain.host.t = "string"
        THEN IF ~Includes(domain.host.s, <<"$", "{">>)
             THEN warning(L4, Msg("domainHostNoVariable", idx, domain.host.s, <<>>))
             ELSE validateHelpersIn(L4, MatchAll(domain.host.s, 1), 1,
                                    <<"d", "o", "m", "a", "i", "n">>, sd)
        ELSE L4

RECURSIVE validateDomains(_, _, _, _, _)
validateDomains(L, items, i, composeServices, sd) ==
    IF i > Len(items) THEN L
    ELSE validateDomains(validateDomain(L, items[i], i - 1, composeServices, sd),
                         items, i + 1, composeServices, sd)

\* the body of data.config.env.forEach, lines 287-305
validateEnvItem(L, env, idx) ==
    IF TypeOf(env) = "string" THEN
        IF ~Includes(env.s, <<"=">>) THEN warning(L, Msg("envNotKeyValue", idx, env.s, <<>>)) ELSE L
    ELSE IF TypeOf(env) = "object" /\ env.t # "null" THEN
        IF env.j = <<"{", "}">> THEN warning(L, Msg("envEmptyObjectItem", idx, <<>>, <<>>)) ELSE L
    ELSE IF TypeOf(env) # "boolean" /\ TypeOf(env) # "number" THEN
        error(L, Msg("envItemBadType", idx, <<>>, <<>>))
    ELSE L

RECURSIVE validateEnvItems(_, _, _)
validateEnvItems(L, items, i) ==
    IF i > Len(items) THEN L ELSE validateEnvItems(validateEnvItem(L, items[i], i - 1), items, i + 1)

\* the env check, lines 284-318
validateEnv(L, env) ==
    CASE env.kind = "absent" -> L
      [] env.kind = "array"  -> validateEnvItems(L, env.items, 1)
      [] env.kind = "object" ->
            IF Len(env.items) = 0 THEN warning(L, Msg("envEmptyObject", 0, <<>>, <<>>)) ELSE L
      [] OTHER -> error(L, Msg("envBadType", 0, <<>>, <<>>))

\* the body of data.config.mounts.forEach, lines 325-337
validateMount(L, mount, idx) ==
    LET L1 == IF ~Truthy(mount.filePath)
              THEN error(L, Msg("mountMissingFilePath", idx, <<>>, <<>>))
              ELSE IF TypeOf(mount.filePath) # "string"
              THEN error(L, Msg("mountFilePathNotString", idx, <<>>, <<>>))
              ELSE L
    IN  IF mount.content.t = "undefined"
        THEN error(L1, Msg("mountMissingContent", idx, <<>>, <<>>))
        ELSE IF TypeOf(mount.content) # "string"
        THEN error(L1, Msg("mountContentNotString", idx, <<>>, <<>>))
        ELSE L1

RECURSIVE validateMountItems(_, _, _)
validateMountItems(L, items, i) ==
    IF i > Len(items) THEN L ELSE validateMountItems(validateMount(L, items[i], i - 1), items, i + 1)

\* an empty mounts array taken for an error
validateMountsNeedsItems(L, mounts) ==
    CASE mounts.kind = "absent"   -> L
      [] mounts.kind = "notArray" -> error(L, Msg("mountsNotArray", 0, <<>>, <<>>))
      [] mounts.items = <<>>      -> error(L, Msg("mountsNotArray", 0, <<>>, <<>>))
      [] OTHER                    -> validateMountItems(L, mounts.items, 1)

\* the mounts check, lines 321-339
validateMounts(L, mounts) ==
    CASE mounts.kind = "absent"   -> L
      [] mounts.kind = "notArray" -> error(L, Msg("mountsNotArray", 0, <<>>, <<>>))
      [] OTHER                    -> validateMountItems(L, mounts.items, 1)

\* Object.entries(data.variables).forEach, lines 347-360
RECURSIVE validateVariableEntries(_, _, _, _)
validateVariableEntries(L, entries, i, sd) ==
    IF i > Len(entries) THEN L
    ELSE LET e  == entries[i]
             L1 == IF TypeOf(e.v) # "string"
                   THEN error(L, Msg("variableNotString", 0, e.k, <<>>))
                   ELSE validateHelpersIn(L, MatchAll(e.v.s, 1), 1, e.k, sd)
         IN  validateVariableEntries(L1, entries, i + 1, sd)

\* unresolved.forEach, lines 373-381: one processed value's leftover expressions
RECURSIVE reportUnresolved(_, _, _, _, _)
reportUnresolved(L, unresolved, i, key, rawVariables) ==
    IF i > Len(unresolved) THEN L
    ELSE LET varName == Capture(unresolved[i])
             L1 == IF ~Truthy(PropGet(rawVariables, varName)) /\ ~Includes(varName, <<":">>)
                   THEN warning(L, Msg("variableUnresolved", 0, key, <<unresolved[i]>>))
                   ELSE L
         IN  reportUnresolved(L1, unresolved, i + 1, key, rawVariables)

\* Object.entries(processedVars).forEach, lines 368-384
RECURSIVE checkProcessedVars(_, _, _, _)
checkProcessedVars(L, processedVars, i, rawVariables) ==
    IF i > Len(processedVars) THEN L
    ELSE LET e  == processedVars[i]
             L1 == IF e.v.t = "string" /\ Includes(e.v.s, <<"$", "{">>)
                   THEN reportUnresolved(L, MatchAll(e.v.s, 1), 1, e.k, rawVariables)
                   ELSE L
         IN  checkProcessedVars(L1, processedVars, i + 1, rawVariables)

\* one  try { processValue(text, processedVars, schema) ... } catch  block of lines
\* 390-474: a warning when the result still holds "${", a warning when the call
\* threw
tryProcess(L, text, processedVars, sd, salt, leftCode, threwCode, idx, key) ==
    Eval(processValue(text, processedVars, EmptySchema, sd, salt), LAMBDA r :
         IF r.threw THEN warning(L, Msg(threwCode, idx, key, <<>>))
         ELSE IF Includes(r.v, <<"$", "{">>)
         THEN warning(L, Msg(leftCode, idx, key, IF leftCode = "hostUnresolved" THEN <<r.v>> ELSE <<>>))
         ELSE L)

\* data.config.domains.forEach, lines 388-403
RECURSIVE resolveHosts(_, _, _, _, _)
resolveHosts(L, items, i, processedVars, sd) ==
    IF i > Len(items) THEN L
    ELSE LET host == items[i].host
             L1 == IF Truthy(host) /\ TypeOf(host) = "string"
                   THEN tryProcess(L, host.s, processedVars, sd, 1000 + 64 * i,
                                   "hostUnresolved", "hostProcessingError", i - 1, <<>>)
                   ELSE L
         IN  resolveHosts(L1, items, i + 1, processedVars, sd)

\* data.config.env.forEach, lines 409-424
RECURSIVE resolveEnvArray(_, _, _, _, _)
resolveEnvArray(L, items, i, processedVars, sd) ==
    IF i > Len(items) THEN L
    ELSE LET L1 == IF TypeOf(items[i]) = "string"
                   THEN tryProcess(L, items[i].s, processedVars, sd, 2000 + 64 * i,
                                   "envUnresolved", "envProcessingError", i - 1, <<>>)
                   ELSE L
         IN  resolveEnvArray(L1, items, i + 1, processedVars, sd)

\* Object.entries(data.config.env).forEach, lines 426-441
RECURSIVE resolveEnvObject(_, _, _, _, _)
resolveEnvObject(L, entries, i, processedVars, sd) ==
    IF i > Len(entries) THEN L
    ELSE LET L1 == IF TypeOf(entries[i].v) = "string"
                   THEN tryProcess(L, entries[i].v.s, processedVars, sd, 2000 + 64 * i,
                                   "envKeyUnresolved", "envKeyProcessingError", 0, entries[i].k)
                   ELSE L
         IN  resolveEnvObject(L1, entries, i + 1, processedVars, sd)

\* data.config.mounts.forEach, lines 447-476
RECURSIVE resolveMounts(_, _, _, _, _)
resolveMounts(L, items, i, processedVars, sd) ==
    IF i > Len(items) THEN L
    ELSE LET m  == items[i]
             L1 == IF Truthy(m.filePath) /\ TypeOf(m.filePath) = "string"
                   THEN tryProcess(L, m.filePath.s, processedVars, sd, 3000 + 64 * i,
                                   "mountFilePathUnresolved", "mountFilePathProcessingError",
                                   i - 1, <<>>)
                   ELSE L
             L2 == IF Truthy(m.content) /\ TypeOf(m.content) = "string"
                   THEN tryProcess(L1, m.content.s, processedVars, sd, 3032 + 64 * i,
                                   "mountContentUnresolved", "mountContentProcessingError",
                                   i - 1, <<>>)
                   ELSE L1
         IN  resolveMounts(L2, items, i + 1, processedVars, sd)

\* the try block of lines 363-485: process the variables, then the hosts, the env
\* values and the mounts with the processed variables; whatever is thrown in it
\* and not caught by an inner try is recorded as one error
processAndResolve(L, data, sd) ==
    Eval(processVariables(data.variables.entries, EmptySchema, sd), LAMBDA pv :
    Eval(checkProcessedVars(L, pv.v, 1, data.variables.entries), LAMBDA L1 :
    Eval(IF data.domains.kind = "array"
         THEN resolveHosts(L1, data.domains.items, 1, pv.v, sd) ELSE L1, LAMBDA L2 :
    Eval(CASE data.env.kind = "array"  -> resolveEnvArray(L2, data.env.items, 1, pv.v, sd)
           [] data.env.kind = "object" -> resolveEnvObject(L2, data.env.items, 1, pv.v, sd)
           [] OTHER                    -> L2, LAMBDA L3 :
         IF pv.threw THEN error(L, Msg("failedToProcessVariables", 0, <<>>, <<>>))
         \* a truthy mounts that is no array has no forEach: a TypeError
         ELSE IF data.mounts.kind = "notArray"
         THEN error(L3, Msg("failedToProcessVariables", 0, <<>>, <<>>))
         ELSE IF data.mounts.kind = "array"
         THEN resolveMounts(L3, data.mounts.items, 1, pv.v, sd)
         ELSE L3))))

\* the variables check, lines 342-487
validateVariablesSection(L, data, sd) ==
    CASE data.variables.kind = "absent"    -> L
      [] data.variables.kind = "notObject" -> error(L, Msg("variablesNotObject", 0, <<>>, <<>>))
      [] OTHER ->
            processAndResolve(validateVariableEntries(L, data.variables.entries, 1, sd), data, sd)

\* validateTemplate(tomlPath, composeServices): [L, ret], ret the boolean returned.
\* toml is [state: "missing" | "syntaxError" | "ok", data]
validateTemplate(L, toml, composeServices, sd) ==
    IF toml.state = "missing"
        THEN [L |-> error(L, Msg("tomlNotFound", 0, <<>>, <<>>)), ret |-> FALSE]
    ELSE IF toml.state = "syntaxError"
        THEN [L |-> error(L, Msg("tomlInvalidSyntax", 0, <<>>, <<>>)), ret |-> FALSE]
    ELSE IF ~toml.data.hasConfig
        THEN [L |-> error(L, Msg("missingConfigSection", 0, <<>>, <<>>)), ret |-> FALSE]
    ELSE IF toml.data.domains.kind = "notArray"
        THEN [L |-> error(L, Msg("domainsNotArray", 0, <<>>, <<>>)), ret |-> FALSE]
    ELSE LET data == toml.data
             L1 == IF data.domains.kind = "array"
                   THEN validateDomains(L, data.domains.items, 1, composeServices, sd)
                   ELSE warning(L, Msg("noDomains", 0, <<>>, <<>>))
             L2 == validateEnv(L1, data.env)
             L3 == validateMounts(L2, data.mounts)
         IN  Eval(validateVariablesSection(L3, data, sd), LAMBDA L4 :
                  [L |-> L4, ret |-> Len(L4.errors) = 0])

\* parseComposeServices(composePath): [L, names]. compose is
\* [state: "missing" | "parseError" | "invalid" | "ok", services, networks]
parseComposeServices(L, compose) ==
    CASE compose.state = "missing" ->
            [L |-> warning(L, Msg("composeNotFound", 0, <<>>, <<>>)), names |-> <<>>]
      [] compose.state = "invalid" ->
            [L |-> error(L, Msg("composeInvalidStructure", 0, <<>>, <<>>)), names |-> <<>>]
      [] compose.state = "parseError" ->
            [L |-> error(L, Msg("composeParseFailed", 0, <<>>, <<>>)), names |-> <<>>]
      [] OTHER ->
            LET serviceNames == [i \in 1..Len(compose.services) |-> compose.services[i].name]
            IN  [L |-> IF Len(serviceNames) = 0
                       THEN warning(L, Msg("composeNoServices", 0, <<>>, <<>>)) ELSE L,
                 names |-> serviceNames]

\* isValid && this.errors.length === 0, line 539
templateValid(isValid, errors) == isValid /\ Len(errors) = 0

\* validateTemplateDir(templateDir): [L, valid], L the instance's lists after the
\* call and valid the flag of the ValidationResult returned
validateTemplateDir(L, fs, sd) ==
    Eval(parseComposeServices(L, fs.compose), LAMBDA cs :
    Eval(validateTemplate(cs.L, fs.toml, cs.names, sd), LAMBDA vt :
         [L |-> vt.L, valid |-> templateValid(vt.ret, vt.L.errors)]))

\* TemplateValidator.validate(), lines 548-564, before the exitOnError test
templateValidate(self, fs, sd) ==
    LET L == [errors |-> self.errors, warnings |-> self.warnings]
    IN  IF ~self.hasPath
        THEN [L |-> error(L, Msg("templateDirRequired", 0, <<>>, <<>>)), valid |-> FALSE]
        ELSE validateTemplateDir(L, fs, sd)

----------------------------------------------------------------------------
(* DockerComposeValidator, validate-docker-compose.ts                        *)
(*                                                                           *)
(* The parsed docker-compose.yml is [state, services, networks]: services    *)
(* the entries of compose.services in order, each                            *)
(*   [name, container_name (a JavaScript value),                             *)
(*    networks: [kind: "absent" | "list" | "map", names],                    *)
(*    ports: [kind: "absent" | "list", items]],                              *)
(* a port entry [t: "string" | "number" | "object", s, published, target];   *)
(* networks is the root networks section, [present, names].                  *)
(***************************************************************************)

W_dokployNetwork ==
    <<"d", "o", "k", "p", "l", "o", "y", "-", "n", "e", "t", "w", "o", "r", "k">>

InSeq(x, xs) == \E i \in 1..Len(xs) : xs[i] = x

\* validateNoContainerName, lines 103-111
RECURSIVE validateNoContainerName(_, _, _)
validateNoContainerName(L, services, i) ==
    IF i > Len(services) THEN L
    ELSE validateNoContainerName(
            IF Truthy(services[i].container_name)
            THEN error(L, Msg("containerName", 0, services[i].name, <<>>)) ELSE L,
            services, i + 1)

\* the loop of validateNoExplicitNetworks, lines 124-149: the map and the list
\* form are tested alike
RECURSIVE validateServiceNetworks(_, _, _)
validateServiceNetworks(L, services, i) ==
    IF i > Len(services) THEN L
    ELSE LET nw == services[i].networks
             L1 == IF nw.kind = "absent" THEN L
                   ELSE IF InSeq(W_dokployNetwork, nw.names)
                   THEN error(L, Msg("serviceDokployNetwork", 0, services[i].name, <<>>))
                   ELSE IF Len(nw.names) > 0
                   THEN error(L, Msg("serviceExplicitNetwork", 0, services[i].name, <<>>))
                   ELSE L
         IN  validateServiceNetworks(L1, services, i + 1)

\* the root-level tests alone, the services not walked
validateRootNetworksOnly(L, compose) ==
    LET L2 == IF compose.networks.present /\ InSeq(W_dokployNetwork, compose.networks.names)
              THEN error(L, Msg("rootDokployNetwork", 0, <<>>, <<>>)) ELSE L
    IN  IF compose.networks.present /\ Len(compose.networks.names) > 0
        THEN error(L2, Msg("rootNetworks", 0, <<>>, <<>>)) ELSE L2

\* validateNoExplicitNetworks, lines 116-163
validateNoExplicitNetworks(L, compose) ==
    LET hasDokployNetwork == compose.networks.present /\ InSeq(W_dokployNetwork, compose.networks.names)
        L1 == validateServiceNetworks(L, compose.services, 1)
        L2 == IF hasDokployNetwork
              THEN error(L1, Msg("rootDokployNetwork", 0, <<>>, <<>>)) ELSE L1
    IN  IF compose.networks.present /\ Len(compose.networks.names) > 0
        THEN error(L2, Msg("rootNetworks", 0, <<>>, <<>>)) ELSE L2

\* /^\d+:\d+/.test(port)
IsPortMapping(port) ==
    LET run == DigitRun(port, 1)
    IN  /\ run >= 1
        /\ run + 2 <= Len(port)
        /\ port[run + 1] = ":"
        /\ IsDigit(port[run + 2])

\* service.ports.forEach, lines 171-187
RECURSIVE validatePortEntries(_, _, _, _)
validatePortEntries(L, name, ports, i) ==
    IF i > Len(ports) THEN L
    ELSE LET port == ports[i]
             L1 == IF port.t = "string"
                   THEN IF IsPortMapping(port.s)
                        THEN error(L, Msg("portMapping", i - 1, name, <<port.s>>)) ELSE L
                   ELSE IF port.t = "object"
                   THEN IF Truthy(port.published) /\ Truthy(port.target)
                        THEN error(L, Msg("portPublished", i - 1, name, <<>>)) ELSE L
                   ELSE L
         IN  validatePortEntries(L1, name, ports, i + 1)

\* validatePortsFormat, lines 168-190
RECURSIVE validatePortsFormat(_, _, _)
validatePortsFormat(L, services, i) ==
    IF i > Len(services) THEN L
    ELSE validatePortsFormat(
            IF services[i].ports.kind = "list"
            THEN validatePortEntries(L, services[i].name, services[i].ports.items, 1) ELSE L,
            services, i + 1)

\* validateServiceNames, lines 210-226
RECURSIVE validateServiceNames(_, _, _)
validateServiceNames(L, services, i) ==
    IF i > Len(services) THEN L
    ELSE LET name == services[i].name
             L1 == IF name # ToLower(name)
                   THEN warning(L, Msg("serviceNameNotLowercase", 0, name, <<>>)) ELSE L
             L2 == IF Includes(name, <<"_">>)
                   THEN warning(L1, Msg("serviceNameUnderscore", 0, name, <<>>)) ELSE L1
         IN  validateServiceNames(L2, services, i + 1)

\* parseCompose(composePath), lines 68-88: the lists after the call and whether a
\* compose object was returned
parseCompose(L, compose) ==
    CASE compose.state = "missing" ->
            [L |-> error(L, Msg("composeNotFound", 0, <<>>, <<>>)), ok |-> FALSE]
      [] compose.state = "invalid" ->
            [L |-> error(L, Msg("composeInvalidStructure", 0, <<>>, <<>>)), ok |-> FALSE]
      [] compose.state = "parseError" ->
            [L |-> error(L, Msg("composeParseFailed", 0, <<>>, <<>>)), ok |-> FALSE]
      [] OTHER -> [L |-> L, ok |-> TRUE]

\* const valid = this.errors.length === 0, line 292
composeValid(errors) == Len(errors) = 0

\* DockerComposeValidator.validate(), lines 232-299, before the exitOnError tests:
\* the file is parsed twice (validateDockerComposeSyntax, then parseCompose)
composeValidate(self, compose) ==
    LET L == [errors |-> self.errors, warnings |-> self.warnings]
    IN  IF ~self.hasPath
        THEN [L |-> error(L, Msg("composePathRequired", 0, <<>>, <<>>)), valid |-> FALSE]
        ELSE Eval(parseCompose(L, compose), LAMBDA p1 :
             IF ~p1.ok THEN [L |-> p1.L, valid |-> FALSE]
             ELSE Eval(parseCompose(p1.L, compose), LAMBDA p2 :
                  IF ~p2.ok THEN [L |-> p2.L, valid |-> FALSE]
                  \* validateServicesExist, lines 195-205
                  ELSE IF Len(compose.services) = 0
                  THEN [L |-> error(p2.L, Msg("noServices", 0, <<>>, <<>>)), valid |-> FALSE]
                  ELSE Eval(validateServiceNames(
                                validatePortsFormat(
                                    validateNoExplicitNetworks(
                                        validateNoContainerName(p2.L, compose.services, 1),
                                        compose),
                                    compose.services, 1),
                                compose.services, 1), LAMBDA L4 :
                            [L |-> L4, valid |-> composeValid(L4.errors)])))

----------------------------------------------------------------------------
(* The inputs explored *)

\* all strings over the alphabet of length at most n
RECURSIVE StringsUpTo(_, _)
StringsUpTo(alphabet, n) ==
    IF n = 0 THEN {<<>>}
    ELSE LET shorter == StringsUpTo(alphabet, n - 1)
         IN  shorter \cup {Append(s, c) : s \in shorter, c \in alphabet}

\* a map literal: the pairs <<key, string value>> in insertion order
MapOf(pairs) == [i \in 1..Len(pairs) |-> [k |-> pairs[i][1], v |-> Str(pairs[i][2])]]

K_a == <<"a">>

K_b == <<"b">>

K_c == <<"c">>

K_zz == <<"z", "z">>

S_suffix == <<"-", "s", "u", "f", "f", "i", "x">>

\* the texts put after "password:", "base64:" and "hash:"
LengthArgs ==
    { <<>>, <<"0">>, <<"3">>, <<"1", "2">>, <<"-", "5">>, <<"x">>, <<"3", "x">>, <<" ", "4">>,
      <<"2", ":", "9">> }

\* the bodies of the expressions handed to processValue
ExprBodies ==
    {W_domain, W_base64, W_password, W_hash, W_uuid, W_timestamp, W_timestampms,
     W_timestamps, W_randomPort, W_jwt, W_username, W_email}
    \cup {w \o <<":">> \o n : w \in {W_base64, W_password, W_hash}, n \in LengthArgs}
    \cup {W_timestampms \o <<":">> \o d : d \in {<<>>, <<"2", "0", "2", "0">>, <<"x">>, <<"7">>}}
    \cup {W_timestamps \o <<":">> \o d : d \in {<<>>, <<"2", "0", "2", "0">>, <<"x">>, <<"7">>}}
    \cup {W_jwt \o <<":">> \o d :
            d \in {<<>>, <<"0">>, <<"2">>, <<"1", "2", "3", "4">>, K_a, K_a \o <<":">> \o K_b,
                   <<"v", "a", "l", "u", "e", "O", "f">>}}
    \cup {K_a, K_b, K_c, K_zz, <<"v", "a", "l", "u", "e", "O", "f">>,
          <<"_", "_", "p", "r", "o", "t", "o", "_", "_">>}

\* the characters of the short literal texts
SmallAlphabet == {"$", "{", "}", "a", ":"}

\* the strings handed to processValue: every short string over the small
\* alphabet, and every expression with a short literal text before or after it
ValueInputs ==
    StringsUpTo(SmallAlphabet, MaxPlain)
    \cup {Expr(body) \o tail : body \in ExprBodies, tail \in StringsUpTo(SmallAlphabet, MaxTail)}
    \cup {lead \o Expr(body) : body \in ExprBodies, lead \in StringsUpTo(SmallAlphabet, MaxTail)}
    \cup {Expr(x) \o mid \o Expr(y) : x, y \in {K_a, K_b, K_c, W_uuid},
                                        mid \in StringsUpTo({":"}, MaxTail)}

\* the variable maps handed to processValue
ValueMaps ==
    { <<>>,
      MapOf(<< <<K_a, <<"x">> >> >>),
      MapOf(<< <<K_a, <<>> >>, <<K_b, Expr(K_a)>> >>),
      MapOf(<< <<K_a, Expr(K_b)>>, <<K_b, <<"{", " ", "}">> >>, <<K_c, Expr(W_uuid)>> >>),
      MapOf(<< <<W_password, <<"p", "w">> >>, <<W_domain, <<"d">> >>, <<K_b, <<"{", "}">> >>,
               <<W_uuid, <<"u">> >>, <<W_base64, <<"u">> >>, <<W_hash, <<"u">> >>,
               <<W_timestamp, <<"u">> >>, <<W_timestampms, <<"u">> >>,
               <<W_timestamps, <<"u">> >>, <<W_randomPort, <<"u">> >>, <<W_jwt, <<"u">> >>,
               <<W_username, <<"u">> >>, <<W_email, <<"u">> >> >>),
      MapOf(<< <<K_a, <<"s">> >>, <<K_b, <<"{", "\"", "a", "\"", ":", "1", "}">> >> >>) }

CustomSchema == [domain |-> <<"m", "y", ".", "h", "o", "s", "t">>]

\* the values of the variable maps handed to processVariables
VarValues ==
    { <<>>, <<"x">>, <<"$", "{">>,
      Expr(K_a), Expr(K_b), Expr(K_zz),
      Expr(W_domain), Expr(W_password), Expr(W_base64), Expr(W_hash), Expr(W_uuid),
      Expr(W_password \o <<":", "3">>), Expr(W_password \o <<":", "1", "2">>),
      Expr(W_base64 \o <<":", "4">>),
      Expr(W_hash \o <<":", "2">>), Expr(W_hash \o <<":", "0">>),
      Expr(K_a) \o S_suffix,
      Expr(W_password \o <<":", "3">>) \o S_suffix,
      <<"$", "{">> \o W_password \o <<":">>,
      <<"x">> \o Expr(W_hash \o <<":", "-", "1">>),
      Expr(W_base64 \o <<":", "-", "5">>) }

VarKeys == <<K_a, K_b, K_c, K_zz>>

\* the sequences of n distinct keys among the first MaxVars keys
KeyOrders(n) ==
    {ks \in [1..n -> {VarKeys[i] : i \in 1..MaxVars}] : \A i, j \in 1..n : i # j => ks[i] # ks[j]}

\* a variable map handed to processVariables: the keys in their order of
\* declaration and the value of each
VarMap(ks, vs) == [i \in 1..Len(ks) |-> [k |-> ks[i], v |-> Str(vs[i])]]

----------------------------------------------------------------------------
(* Specification SpecValue: one call of processValue *)

NoResult == [threw |-> FALSE, v |-> <<>>]

NoInstance == [made |-> FALSE, hasPath |-> FALSE, exitOnError |-> FALSE,
               errors |-> <<>>, warnings |-> <<>>, calls |-> 0]

NoReport ==
    [by |-> "none", valid |-> FALSE, errors |-> <<>>, warnings |-> <<>>, earlier |-> <<>>]

NoToml == [state |-> "missing", data |-> <<>>]

NoCompose == [state |-> "missing", services |-> <<>>, networks |-> [present |-> FALSE, names |-> <<>>]]

NoFiles == [toml |-> NoToml, compose |-> NoCompose]

\* no validator is constructed
NoValidators == files = NoFiles /\ tv = NoInstance /\ dc = NoInstance /\ report = NoReport

InitValue ==
    /\ pc = "start"
    /\ \/ argValue \in ValueInputs /\ argVariables \in ValueMaps /\ argSchema = EmptySchema
       \/ /\ argValue \in {Expr(W_domain), <<"a">> \o Expr(W_domain), Expr(K_a)}
          /\ argVariables = <<>>
          /\ argSchema = CustomSchema
    /\ seed \in Seeds
    /\ result = NoResult
    /\ NoValidators

\* processValue(argValue, argVariables, argSchema)
ProcessValueCall ==
    /\ pc = "start"
    /\ pc' = "processValue"
    /\ result' = processValue(argValue, argVariables, argSchema, seed, 0)
    /\ UNCHANGED <<argValue, argVariables, argSchema, seed, files, tv, dc, report>>

NextValue == ProcessValueCall

SpecValue == InitValue /\ [][NextValue]_vars

----------------------------------------------------------------------------
(* Specification SpecVars: processVariables, then processVariables on its result *)

InitVars ==
    /\ pc = "start"
    /\ argValue = <<>>
    /\ \E n \in 0..MaxVars : \E ks \in KeyOrders(n) : \E vs \in [1..n -> VarValues] :
          argVariables = VarMap(ks, vs)
    /\ argSchema = EmptySchema
    /\ seed \in Seeds
    /\ result = [first |-> NoResult, second |-> NoResult]
    /\ NoValidators

\* processVariables(argVariables, argSchema)
ProcessVariablesCall ==
    /\ pc = "start"
    /\ pc' = "processVariables"
    /\ result' = [result EXCEPT !.first = processVariables(argVariables, argSchema, seed)]
    /\ argVariables' = variablesAfter(argVariables, argSchema, seed)
    /\ UNCHANGED <<argValue, argSchema, seed, files, tv, dc, report>>

\* processVariables(the map the first call returned), under any outcome of the
\* random source
ProcessVariablesAgain ==
    /\ pc = "processVariables"
    /\ ~result.first.threw
    /\ pc' = "processVariablesAgain"
    /\ \E sd \in Seeds :
          result' = [result EXCEPT !.second = processVariables(result.first.v, argSchema, sd),
                                   !.first.v = variablesAfter(result.first.v, argSchema, sd)]
    /\ UNCHANGED <<argValue, argVariables, argSchema, seed, files, tv, dc, report>>

NextVars == ProcessVariablesCall \/ ProcessVariablesAgain

SpecVars == InitVars /\ [][NextVars]_vars

----------------------------------------------------------------------------
(* The files explored by specification Spec *)

W_web == <<"w", "e", "b">>

W_worker == <<"w", "o", "r", "k", "e", "r">>

W_main_domain == <<"m", "a", "i", "n", "_", "d", "o", "m", "a", "i", "n">>

Domain(serviceName, port, host) == [serviceName |-> serviceName, port |-> port, host |-> host]

\* the entries of config.domains
DomainItems ==
    { Domain(Str(W_web), NumV(3000), Str(Expr(W_main_domain))),
      Domain(Str(W_worker), Str(<<"3", "_", "0", "0", "0">>), Str(Expr(W_main_domain))),
      Domain(Str(W_web), NumV(70000), Str(<<"s", ".", "i", "o">>)),
      Domain(Str(W_web), NumV(3000), Str(<<"s", ".", "i", "o">>)),
      Domain(Str(W_web), NumV(3000), Str(<<>>)),
      Domain(Str(<<>>), NumV(0), Str(Expr(W_main_domain))),
      Domain(Undefined, Undefined, Str(Expr(K_zz))),
      Domain(Str(W_web), Str(<<"x">>), Str(Expr(W_hash \o <<":", "-", "1">>))) }

Absent == [kind |-> "absent", items |-> <<>>]

NotArray == [kind |-> "notArray", items |-> <<>>]

ArrayOf(items) == [kind |-> "array", items |-> items]

\* the sequences over a set of length at most n
SeqsUpTo(S, n) == UNION {[1..m -> S] : m \in 0..n}

DomainsChoices == {Absent, NotArray} \cup {ArrayOf(ds) : ds \in SeqsUpTo(DomainItems, MaxDomains)}

EnvChoices ==
    { Absent,
      ArrayOf(<<Str(<<"P", "O", "R", "T", "=", "3", "0", "0", "0">>)>>),
      ArrayOf(<<Str(<<"N", "O", "E", "Q">>), ObjOf(<<"{", "}">>), Null,
                Str(<<"K", "=">> \o Expr(K_zz)), BoolV(TRUE), NumV(5),
                ObjOf(<<"{", "\"", "a", "\"", ":", "1", "}">>)>>),
      ArrayOf(<<Str(<<"K", "=">> \o Expr(K_zz))>>),
      [kind |-> "object", items |-> MapOf(<< <<<<"K">>, Expr(K_zz)>> >>)],
      [kind |-> "object", items |-> <<>>],
      [kind |-> "other", items |-> <<>>] }

Mount(filePath, content) == [filePath |-> filePath, content |-> content]

MountsChoices ==
    { Absent, NotArray, ArrayOf(<<>>),
      \* a content whose generated password may end in "$", right before the "{"
      ArrayOf(<<Mount(Str(<<"/", "f">>), Str(Expr(W_password \o <<":", "3">>) \o <<"{">>))>>),
      ArrayOf(<<Mount(Str(<<"/", "f">>), Str(Expr(W_main_domain)))>>),
      ArrayOf(<<Mount(Undefined, NumV(5)), Mount(Str(<<"/", "g">>), Str(Expr(K_zz))),
                Mount(Str(<<>>), Str(<<>>)), Mount(NumV(5), Undefined),
                Mount(Str(<<"/", "h">>), Str(<<>>))>>) }

VariablesChoices ==
    { [kind |-> "absent", entries |-> <<>>],
      [kind |-> "notObject", entries |-> <<>>],
      [kind |-> "object", entries |-> MapOf(<< <<W_main_domain, Expr(W_domain)>> >>)],
      [kind |-> "object",
       entries |-> MapOf(<< <<W_main_domain, Expr(W_domain)>>, <<K_b, Expr(W_uuid)>> >>)],
      [kind |-> "object",
       entries |-> MapOf(<< <<W_main_domain, Expr(W_domain)>> >>) \o <<[k |-> K_b, v |-> NumV(5)]>>],
      [kind |-> "object",
       entries |-> MapOf(<< <<K_a, <<"x">> \o Expr(W_hash \o <<":", "-", "1">>)>> >>)],
      [kind |-> "object",
       entries |-> MapOf(<< <<W_main_domain, Expr(K_zz)>>,
                            <<K_b, Expr(W_password \o <<":", "x">>)>>,
                            <<K_c, Expr(K_zz \o <<":", "1">>) \o Expr(K_zz \o <<":", "x">>)
                                     \o Expr(W_timestamps \o <<":", "a", "b">>)
                                     \o Expr(W_timestampms \o <<":", "2", "0", "2", "0">>)>> >>)] }

TomlData(hasConfig, domains, env, mounts, variables) ==
    [hasConfig |-> hasConfig, domains |-> domains, env |-> env, mounts |-> mounts,
     variables |-> variables]

\* the template.toml files
TomlChoices ==
    { NoToml,
      [state |-> "syntaxError", data |-> <<>>],
      [state |-> "ok", data |-> TomlData(FALSE, Absent, Absent, Absent,
                                         [kind |-> "absent", entries |-> <<>>])] }
    \cup {[state |-> "ok", data |-> TomlData(TRUE, d, e, m, v)] :
            d \in DomainsChoices, e \in EnvChoices, m \in MountsChoices, v \in VariablesChoices}

NoNetworks == [kind |-> "absent", names |-> <<>>]

NoPorts == [kind |-> "absent", items |-> <<>>]

Service(name, container_name, networks, ports) ==
    [name |-> name, container_name |-> container_name, networks |-> networks, ports |-> ports]

PortString(s) == [t |-> "string", s |-> s, published |-> Undefined, target |-> Undefined]

PortObject(published, target) == [t |-> "object", s |-> <<>>, published |-> published, target |-> target]

\* the services of a docker-compose.yml; each has a name of its own
ServiceItems ==
    { Service(W_web, Undefined, NoNetworks, NoPorts),
      Service(<<"d", "b">>, Str(<<"m", "y", "d", "b">>), NoNetworks,
              [kind |-> "list", items |-> <<PortString(<<"8", "0">>)>>]),
      Service(<<"W", "e", "b", "_", "A", "p", "p">>, Undefined, NoNetworks,
              [kind |-> "list", items |-> <<PortString(<<"8", "0", "8", "0", ":", "8", "0">>)>>]),
      Service(<<"a", "p", "i">>, Undefined, [kind |-> "list", names |-> <<W_dokployNetwork>>],
              [kind |-> "list", items |-> <<PortObject(NumV(8080), NumV(80))>>]),
      Service(<<"c", "a", "c", "h", "e">>, Undefined,
              [kind |-> "map", names |-> <<<<"i", "n", "t">>>>],
              [kind |-> "list", items |-> <<PortObject(Undefined, NumV(80))>>]),
      Service(<<"t", "m", "p">>, Str(<<>>), NoNetworks, NoPorts),
      Service(W_worker, Undefined, [kind |-> "list", names |-> <<>>],
              [kind |-> "list",
               items |-> <<PortString(<<"1", ".", "1", ".", "1", ".", "1", ":", "8", "0", ":",
                                        "8", "0">>)>>]) }

RootNetworksChoices ==
    { [present |-> FALSE, names |-> <<>>],
      [present |-> TRUE, names |-> <<>>],
      [present |-> TRUE, names |-> <<W_dokployNetwork>>],
      [present |-> TRUE, names |-> <<<<"i", "n", "t">>>>] }

\* the sequences of services with distinct names
ServiceLists ==
    {ss \in SeqsUpTo(ServiceItems, MaxServices) :
        \A i, j \in 1..Len(ss) : i # j => ss[i].name # ss[j].name}

\* the docker-compose.yml files handed to DockerComposeValidator
ComposeChoices ==
    { NoCompose,
      [state |-> "invalid", services |-> <<>>, networks |-> [present |-> FALSE, names |-> <<>>]],
      [state |-> "parseError", services |-> <<>>, networks |-> [present |-> FALSE, names |-> <<>>]] }
    \cup {[state |-> "ok", services |-> ss, networks |-> nw] :
            ss \in ServiceLists, nw \in RootNetworksChoices}

\* the docker-compose.yml files beside a template.toml
ComposeBesideToml ==
    { NoCompose,
      [state |-> "invalid", services |-> <<>>, networks |-> [present |-> FALSE, names |-> <<>>]],
      [state |-> "ok", services |-> <<>>, networks |-> [present |-> FALSE, names |-> <<>>]],
      [state |-> "ok", services |-> <<Service(W_web, Undefined, NoNetworks, NoPorts)>>,
       networks |-> [present |-> FALSE, names |-> <<>>]],
      [state |-> "ok",
       services |-> <<Service(W_web, Undefined, NoNetworks, NoPorts),
                      Service(W_worker, Undefined, NoNetworks, NoPorts)>>,
       networks |-> [present |-> FALSE, names |-> <<>>]] }

----------------------------------------------------------------------------
(* Specification Spec: a process constructs one validator and calls validate() *)

\* new TemplateValidator(options) / new DockerComposeValidator(options)
Instance(hasPath, exitOnError) ==
    [made |-> TRUE, hasPath |-> hasPath, exitOnError |-> exitOnError,
     errors |-> <<>>, warnings |-> <<>>, calls |-> 0]

NoHelperCall ==
    /\ argValue = <<>>
    /\ argVariables = <<>>
    /\ argSchema = EmptySchema
    /\ result = NoResult

\* validate-template: a TemplateValidator over a template directory
InitTemplate ==
    /\ dc = NoInstance
    /\ \/ /\ tv \in {Instance(TRUE, x) : x \in BOOLEAN}
          /\ files \in {[toml |-> tm, compose |-> c] : tm \in TomlChoices, c \in ComposeBesideToml}
       \/ /\ tv \in {Instance(FALSE, x) : x \in BOOLEAN}
          /\ files = NoFiles

\* validate-docker-compose: a DockerComposeValidator over a compose file
InitCompose ==
    /\ tv = NoInstance
    /\ \/ /\ dc \in {Instance(TRUE, x) : x \in BOOLEAN}
          /\ files \in {[toml |-> NoToml, compose |-> c] : c \in ComposeChoices}
       \/ /\ dc \in {Instance(FALSE, x) : x \in BOOLEAN}
          /\ files = NoFiles

Init ==
    /\ pc = "idle"
    /\ seed = 0
    /\ report = NoReport
    /\ NoHelperCall
    /\ (InitTemplate \/ InitCompose)

\* a ValidationResult returned earlier, as its holder reads it once the
\* instance's lists are L:  { valid, errors: this.errors, warnings: this.warnings }
\* holds the instance's own arrays, no copies
sharedLists(r, L) == [valid |-> r.valid, errors |-> L.errors, warnings |-> L.warnings]

\* what a validate() call leaves: the instance's lists, and either the report
\* returned or, with exitOnError and an invalid outcome, the process exited;
\* report.earlier are the reports returned by the calls before, as they read now
Returned(self, r, by) ==
    IF ~r.valid /\ self.exitOnError
    THEN pc' = "exited" /\ report' = report
    ELSE /\ pc' = "returned"
         /\ report' = [by |-> by, valid |-> r.valid, errors |-> r.L.errors,
                       warnings |-> r.L.warnings,
                       earlier |-> IF report.by = "none" THEN <<>>
                                   ELSE [k \in 1..(Len(report.earlier) + 1) |->
                                           IF k <= Len(report.earlier)
                                           THEN sharedLists(report.earlier[k], r.L)
                                           ELSE sharedLists(report, r.L)]]

\* TemplateValidator.validate()
TemplateValidatorValidate ==
    /\ tv.made
    /\ pc # "exited"
    /\ tv.calls < MaxCalls
    /\ \E sd \in Seeds :
          \E r \in {templateValidate(tv, files, sd)} :
              /\ tv' = [tv EXCEPT !.errors = r.L.errors, !.warnings = r.L.warnings,
                                  !.calls = @ + 1]
              /\ seed' = sd
              /\ Returned(tv, r, "template")
    /\ UNCHANGED <<argValue, argVariables, argSchema, result, files, dc>>

\* DockerComposeValidator.validate()
DockerComposeValidatorValidate ==
    /\ dc.made
    /\ pc # "exited"
    /\ dc.calls < MaxCalls
    /\ \E r \in {composeValidate(dc, files.compose)} :
           /\ dc' = [dc EXCEPT !.errors = r.L.errors, !.warnings = r.L.warnings,
                               !.calls = @ + 1]
           /\ Returned(dc, r, "compose")
    /\ UNCHANGED <<argValue, argVariables, argSchema, seed, result, files, tv>>

Next == TemplateValidatorValidate \/ DockerComposeValidatorValidate

Spec == Init /\ [][Next]_vars

----------------------------------------------------------------------------
(* Properties of the reports (specification Spec) *)

\* C1: in every report returned by TemplateValidator.validate and by
\* DockerComposeValidator.validate, valid is true if and only if the errors
\* list is empty, whatever the number of warnings
C1_ValidIffNoErrors ==
    report.by # "none" => (report.valid <=> Len(report.errors) = 0)

\* a template run that produced warnings and no error returned valid = true
C1_WarningsOnlyIsValid ==
    /\ pc = "returned"
    /\ report.by = "template"
    /\ ~tv.exitOnError
    /\ Len(report.warnings) > 0
    /\ Len(report.errors) = 0
    /\ report.valid

----------------------------------------------------------------------------
(* Properties of processValue (specification SpecValue) *)

\* no "${", one or more characters other than "}", "}" stands anywhere in s
NoExpression(s) ==
    ~\E i \in 1..Len(s), j \in 1..Len(s) :
        /\ i + 2 < j
        /\ s[i] = "$"
        /\ s[i + 1] = "{"
        /\ s[j] = "}"
        /\ \A k \in (i + 2)..(j - 1) : s[k] # "}"

\* C2: for every string s that contains no ${...} occurrence (the empty string
\* included) and every variable map, processValue returns s unchanged
C2_IdentityOnPlainText ==
    (pc = "processValue" /\ NoExpression(argValue)) => result = Ok(argValue)

\* a text with "${" and braces but no expression went through unchanged under a
\* map with entries
C2_PlainTextReturned ==
    /\ pc = "processValue"
    /\ NoExpression(argValue)
    /\ Includes(argValue, <<"$", "{">>)
    /\ Includes(argValue, <<"}">>)
    /\ Len(argVariables) > 0
    /\ result = Ok(argValue)

\* the length arguments that are decimal numerals
NumeralArgs == {n \in LengthArgs : n # <<>> /\ \A i \in 1..Len(n) : IsDigit(n[i])}

\* C3: ${password:n} resolves to a string of length exactly n, and to a string
\* of length 16 when n cannot be parsed as an integer
C3_PasswordLength ==
    \A n \in LengthArgs :
        (pc = "processValue" /\ argValue = Expr(W_password \o <<":">> \o n)) =>
            /\ ~result.threw
            /\ n \in NumeralArgs => Len(result.v) = DigitsValue(n)
            /\ parseInt(n).nan => Len(result.v) = 16

\* the names tried as plain variable references
PlainNames ==
    {K_a, K_b, K_c, K_zz, <<"v", "a", "l", "u", "e", "O", "f">>,
     <<"_", "_", "p", "r", "o", "t", "o", "_", "_">>}

\* C9: for ${name} with name no helper tag, processValue substitutes the map's
\* value whenever name is a key of the map, the empty string included, and
\* leaves the literal ${name} exactly when name is not a key
C9_SubstituteIffKey ==
    \A name \in PlainNames :
        (pc = "processValue" /\ argValue = Expr(name)) =>
            /\ ~result.threw
            /\ (HasKey(argVariables, name) /\ NoExpression(OwnValue(argVariables, name).s))
                  => result.v = OwnValue(argVariables, name).s
            /\ ~HasKey(argVariables, name) <=> result.v = Expr(name)

\* C10: processValue never raises for a malformed expression in a string value
\* (a negative, zero, non-numeric or oversized length, an unparsable datetime):
\* it returns a string
C10_NeverRaises ==
    pc = "processValue" => ~result.threw

\* the three dot-separated segments of a token, <<>> when it has no two dots
TokenSegments(s) ==
    LET dots == {i \in 1..Len(s) : s[i] = "."}
    IN  IF Cardinality(dots) # 2 THEN <<>>
        ELSE LET d1 == CHOOSE i \in dots : \A j \in dots : i <= j
                 d2 == CHOOSE i \in dots : \A j \in dots : j <= i
             IN  <<SubSeq(s, 1, d1 - 1), SubSeq(s, d1 + 1, d2 - 1), SubSeq(s, d2 + 1, Len(s))>>

\* the payload a variable's value stands for: the object it parses to when it is
\* a JSON object literal, the empty object otherwise and when there is no such key
PayloadOf(variables, name) ==
    IF /\ HasKey(variables, name)
       /\ OwnValue(variables, name).t = "string"
       /\ ~JsonParse(OwnValue(variables, name).s).threw
    THEN JsonParse(OwnValue(variables, name).s).v
    ELSE Obj

\* C22: for ${jwt:secret:payloadVar}, processValue emits a token whose second
\* segment encodes the object parsed from the value of payloadVar when that
\* value is a JSON object literal, and the empty object when it is not or the
\* name is no key of the map
C22_JwtPayloadEncoded ==
    (pc = "processValue" /\ argValue = Expr(W_jwt \o <<":">> \o K_a \o <<":">> \o K_b)) =>
        /\ ~result.threw
        /\ Len(TokenSegments(result.v)) = 3
        /\ TokenSegments(result.v)[2]
             = ToBase64Url(ToBytes(JsonStringify(PayloadOf(argVariables, K_b))))

\* the all-digit parameters tried after "jwt:"
JwtDigitArgs == {<<"0">>, <<"2">>, <<"1", "2", "3", "4">>}

\* C23: for ${jwt:n} with n a single parameter made only of digits, whatever
\* their number and 0 included, processValue returns a random hex token of
\* exactly n bytes (2n hex characters), never a token of three dot-separated
\* segments
C23_JwtLegacyHexToken ==
    \A n \in JwtDigitArgs :
        (pc = "processValue" /\ argValue = Expr(W_jwt \o <<":">> \o n)) =>
            /\ ~result.threw
            /\ Len(result.v) = 2 * DigitsValue(n)
            /\ \A i \in 1..Len(result.v) : \E h \in 1..Len(HexDigits) : HexDigits[h] = result.v[i]
            /\ TokenSegments(result.v) = <<>>

----------------------------------------------------------------------------
(* Properties of processVariables (specification SpecVars) *)

\* every value of the map is a string without expression
FullyResolved(m) == \A i \in 1..Len(m) : m[i].v.t = "string" /\ NoExpression(m[i].v.s)

\* C4: processVariables is idempotent on fully resolved maps: for a map whose
\* values are strings with no ${...} expression, processVariables(m) = m and
\* processVariables(processVariables(m)) = processVariables(m)
C4_IdempotentOnResolved ==
    FullyResolved(argVariables) =>
        /\ pc # "start" => result.first = Ok(argVariables)
        /\ pc = "processVariablesAgain" => result.second = result.first

\* the map {a: "${password:n}", b: "${a}-suffix"}
PasswordThenSuffix(n) ==
    MapOf(<< <<K_a, Expr(W_password \o <<":">> \o n)>>, <<K_b, Expr(K_a) \o S_suffix>> >>)

\* the lengths n >= 1 among the numerals tried
PositiveArgs == {n \in NumeralArgs : DigitsValue(n) >= 1}

\* C5: for {a: "${password:n}", b: "${a}-suffix"} with n >= 1, processVariables
\* returns b equal to the final value of a followed by "-suffix", the prefix of
\* length n, and b without residual ${...}
C5_SuffixAfterPassword ==
    \A n \in PositiveArgs :
        (pc # "start" /\ argVariables = PasswordThenSuffix(n)) =>
            /\ ~result.first.threw
            /\ OwnValue(result.first.v, K_b).s = OwnValue(result.first.v, K_a).s \o S_suffix
            /\ Len(OwnValue(result.first.v, K_a).s) = DigitsValue(n)
            /\ NoExpression(OwnValue(result.first.v, K_b).s)

\* the map with a two-digit length was processed: b is twelve characters and
\* the suffix
C5_TwelveThenSuffix ==
    /\ pc = "processVariables"
    /\ argVariables = PasswordThenSuffix(<<"1", "2">>)
    /\ Len(OwnValue(result.first.v, K_b).s) = 12 + Len(S_suffix)
    /\ EndsWith(OwnValue(result.first.v, K_b).s, S_suffix)

\* the values Pass 1 is to materialize: exactly one independent-helper pattern
ExactPatterns ==
    {Expr(W_domain), Expr(W_base64), Expr(W_password), Expr(W_hash)}
    \cup {Expr(w \o <<":">> \o n) : w \in {W_base64, W_password, W_hash}, n \in PositiveArgs}

\* C6: Pass 1 materializes every entry whose value is exactly ${domain},
\* ${base64}, ${base64:n}, ${password}, ${password:n}, ${hash} or ${hash:n}, so
\* a variable that references such an entry resolves to that entry's final
\* value, without residual ${...}, also when the entry is declared after it
C6_ForwardReferenceResolved ==
    \A x, y \in {K_a, K_b} :
        (/\ pc # "start"
         /\ x # y
         /\ Len(argVariables) = 2
         /\ argVariables[1] = [k |-> x, v |-> Str(Expr(y))]
         /\ argVariables[2].k = y
         /\ argVariables[2].v.s \in ExactPatterns) =>
            /\ ~result.first.threw
            /\ OwnValue(result.first.v, x) = OwnValue(result.first.v, y)
            /\ NoExpression(OwnValue(result.first.v, x).s)

\* C7: an entry whose value embeds a helper inside a larger string (a helper
\* followed by further text) is not replaced wholesale in Pass 1: it is resolved
\* with the surrounding text preserved
C7_EmbeddedHelperKeepsText ==
    \A i \in 1..Len(argVariables) :
        (/\ pc # "start"
         /\ \E w \in {W_base64, W_password, W_hash}, n \in PositiveArgs :
                argVariables[i].v.s = Expr(w \o <<":">> \o n) \o S_suffix) =>
            /\ ~result.first.threw
            /\ EndsWith(result.first.v[i].v.s, S_suffix)

\* the expression body names a helper: its text up to the first colon is a tag
NamesHelper(body) == SplitColon(body)[1] \in validHelpers

\* C8: after processVariables returns, every value of the output map either
\* contains no ${...} expression, or every ${...} left in it names something
\* that is neither a helper tag nor a key of the map
C8_ResidualsAreUnknownNames ==
    (pc # "start" /\ ~result.first.threw) =>
        \A i \in 1..Len(result.first.v) :
            LET left == MatchAll(result.first.v[i].v.s, 1)
            IN  \A h \in 1..Len(left) :
                    /\ ~NamesHelper(Capture(left[h]))
                    /\ ~HasKey(result.first.v, Capture(left[h]))

AllPlainKeys(s, m) ==
    \A h \in 1..Len(MatchAll(s, 1)) :
        LET name == Capture(MatchAll(s, 1)[h])
        IN  /\ ~NamesHelper(name)
            /\ HasKey(m, name)
            /\ OwnValue(m, name).t = "string"
            /\ OwnValue(m, name).s # <<>>

\* s from position i on with each expression, left to right and non-overlapping,
\* replaced by the value its name has in m, the values put in left as they are
RECURSIVE SubstitutedOnce(_, _, _)
SubstitutedOnce(s, i, m) ==
    LET j == FirstMatch(s, i)
    IN  IF j = 0 THEN SubSeq(s, i, Len(s))
        ELSE SubSeq(s, i, j - 1) \o OwnValue(m, Capture(SubSeq(s, j, MatchEnd(s, j)))).s
             \o SubstitutedOnce(s, MatchEnd(s, j) + 1, m)

\* C12: processValue replaces each ${...} occurrence, scanned left to right and
\* non-overlapping, with the resolution of that one expression, several
\* expressions of one string each on its own; the text a replacement produced is
\* not scanned and substituted again
C12_ReplacedOnceLeftToRight ==
    (pc = "processValue" /\ AllPlainKeys(argValue, argVariables)) =>
        result = Ok(SubstitutedOnce(argValue, 1, argVariables))

----------------------------------------------------------------------------
(* Properties of the checks of TemplateValidator (specification Spec) *)

\* how many times the message m stands in the list
CountOf(msgs, m) == Cardinality({k \in 1..Len(msgs) : msgs[k] = m})

\* how many messages of the list have one of the codes and carry this name
CountNamed(msgs, codes, name) ==
    Cardinality({k \in 1..Len(msgs) : msgs[k].code \in codes /\ msgs[k].text = name})

\* how many messages of the list have this code and this index
CountAt(msgs, code, idx) ==
    Cardinality({k \in 1..Len(msgs) : msgs[k].code = code /\ msgs[k].idx = idx})

\* the names of the services of the manifest beside the descriptor
ManifestServices ==
    IF files.compose.state = "ok"
    THEN [i \in 1..Len(files.compose.services) |-> files.compose.services[i].name]
    ELSE <<>>

\* the descriptor was parsed and its domain declarations are walked
DomainsWalked ==
    /\ files.toml.state = "ok"
    /\ files.toml.data.hasConfig
    /\ files.toml.data.domains.kind = "array"

\* the domain declaration i has a non-empty serviceName that is not a service of
\* the manifest
UnknownService(i) ==
    LET name == files.toml.data.domains.items[i].serviceName
    IN  /\ Truthy(name)
        /\ \A k \in 1..Len(ManifestServices) : name # Str(ManifestServices[k])

\* C13: when the manifest's service list is non-empty, every domain declaration
\* whose non-empty serviceName is not in the list adds exactly one error that
\* names the serviceName and lists all the manifest's services, and the report
\* is invalid; a domain whose serviceName is in the list adds no such error
C13_UnknownServiceOneError ==
    [][(tv'.calls # tv.calls /\ DomainsWalked /\ ManifestServices # <<>>) =>
        \A i \in 1..Len(files.toml.data.domains.items) :
            LET name  == files.toml.data.domains.items[i].serviceName
                m     == Msg("domainServiceNotFound", i - 1, ToStr(name), ManifestServices)
                added == CountAt(tv'.errors, "domainServiceNotFound", i - 1)
                         - CountAt(tv.errors, "domainServiceNotFound", i - 1)
            IN  IF UnknownService(i)
                THEN /\ added = 1
                     /\ CountOf(tv'.errors, m) - CountOf(tv.errors, m) = 1
                     /\ pc' = "exited" \/ ~report'.valid
                ELSE added = 0]_vars

\* a domain names worker beside a manifest of web alone: the report returned is
\* invalid and holds the error with the name and the list
C13_WorkerNotInManifest ==
    /\ pc = "returned"
    /\ report.by = "template"
    /\ DomainsWalked
    /\ ManifestServices = <<W_web>>
    /\ Len(files.toml.data.domains.items) >= 1
    /\ UnknownService(1)
    /\ ~report.valid
    /\ CountOf(report.errors, Msg("domainServiceNotFound", 0, W_worker, <<W_web>>)) = 1

\* a variable value that is one helper without parameters and nothing else
ExactHelper(v) == v.t = "string" /\ \E h \in validHelpers : v.s = Expr(h)

\* a domain whose serviceName is in the manifest and whose port is in 1..65535
CleanServiceAndPort(domain) ==
    /\ Truthy(domain.serviceName)
    /\ includesService(ManifestServices, domain.serviceName)
    /\ domain.port.t \in {"number", "string"}
    /\ ~portNumber(domain.port).nan
    /\ portNumber(domain.port).n \in 1..65535

\* a domain whose serviceName is in the manifest, whose port is in 1..65535 and
\* whose host is a reference to a declared variable
CleanDomain(domain, variables) ==
    /\ CleanServiceAndPort(domain)
    /\ domain.host.t = "string"
    /\ \E e \in 1..Len(variables) : domain.host.s = Expr(variables[e].k)

\* an env entry that is a KEY=VALUE string
KeyValue(env) == env.t = "string" /\ Includes(env.s, <<"=">>)

\* the descriptor of the run has exact helpers for variables, an env array of
\* entries that satisfy EnvOk and an empty mounts array, beside a manifest with
\* services; its domains are left to the caller
CleanBesideDomains(EnvOk(_)) ==
    /\ tv.hasPath
    /\ files.compose.state = "ok"
    /\ Len(files.compose.services) > 0
    /\ files.toml.state = "ok"
    /\ files.toml.data.hasConfig
    /\ files.toml.data.variables.kind = "object"
    /\ \A e \in 1..Len(files.toml.data.variables.entries) :
          ExactHelper(files.toml.data.variables.entries[e].v)
    /\ files.toml.data.domains.kind = "array"
    /\ files.toml.data.env.kind = "array"
    /\ \A e \in 1..Len(files.toml.data.env.items) : EnvOk(files.toml.data.env.items[e])
    /\ files.toml.data.mounts.kind = "array"
    /\ files.toml.data.mounts.items = <<>>

\* the clean descriptor: every domain clean as well
CleanDescriptor(EnvOk(_)) ==
    /\ CleanBesideDomains(EnvOk)
    /\ \A d \in 1..Len(files.toml.data.domains.items) :
          CleanDomain(files.toml.data.domains.items[d], files.toml.data.variables.entries)

\* validate() returned valid = true with no error and no warning
CleanReport ==
    /\ pc = "returned"
    /\ report.by = "template"
    /\ report.valid
    /\ report.errors = <<>>
    /\ report.warnings = <<>>

\* C16 as stated: a descriptor whose variables are all exact helpers, whose
\* every domain has a serviceName of the manifest, a port in 1..65535 and a
\* host that references a declared variable, whose env entries are all
\* KEY=VALUE strings and whose mounts list is empty, validates to valid = true
\* with zero errors and zero warnings
C16_CleanWithAnyKeyValue ==
    (tv.calls > 0 /\ CleanDescriptor(KeyValue)) => CleanReport

\* C16: such a descriptor, when none of its KEY=VALUE env strings holds a "${",
\* validates to valid = true with zero errors and zero warnings
C16_CleanDescriptorIsValid ==
    (tv.calls > 0 /\ CleanDescriptor(LAMBDA env : KeyValue(env) /\ ~Includes(env.s, <<"$", "{">>)))
        => CleanReport

\* the scenario: main_domain = "${domain}", one domain of service web with port
\* 3000 and host "${main_domain}", env ["PORT=3000"], no mount, and the clean
\* report returned
C16_ScenarioValidated ==
    /\ CleanReport
    /\ files.toml.state = "ok"
    /\ files.toml.data.variables.entries = MapOf(<< <<W_main_domain, Expr(W_domain)>> >>)
    /\ files.toml.data.domains
         = ArrayOf(<<Domain(Str(W_web), NumV(3000), Str(Expr(W_main_domain)))>>)
    /\ files.toml.data.env.kind = "array"
    /\ Len(files.toml.data.env.items) = 1
    /\ files.toml.data.mounts = ArrayOf(<<>>)

\* an env entry that is a KEY=VALUE string without expression
PlainKeyValue(env) == KeyValue(env) /\ ~Includes(env.s, <<"$", "{">>)

\* a host that is a string without "${"
NoVariableSyntax(host) == host.t = "string" /\ ~Includes(host.s, <<"$", "{">>)

\* what a validate() step adds about hosts, Static(_) telling the hosts that are
\* to get the warning: one warning for each such host and none for another;
\* and when the descriptor is clean but for such hosts, these warnings and
\* nothing else, the report valid
HostWarnings(Static(_)) ==
    (tv'.calls # tv.calls /\ DomainsWalked) =>
        LET items == files.toml.data.domains.items
        IN  /\ \A i \in 1..Len(items) :
                  CountAt(tv'.warnings, "domainHostNoVariable", i - 1)
                     - CountAt(tv.warnings, "domainHostNoVariable", i - 1)
                  = IF Static(items[i].host) THEN 1 ELSE 0
            /\ ( /\ CleanBesideDomains(PlainKeyValue)
                 /\ \A i \in 1..Len(items) :
                       /\ CleanServiceAndPort(items[i])
                       /\ \/ Static(items[i].host)
                          \/ CleanDomain(items[i], files.toml.data.variables.entries) )
              => /\ Len(tv'.errors) = Len(tv.errors)
                 /\ Len(tv'.warnings) - Len(tv.warnings)
                      = Cardinality({i \in 1..Len(items) : Static(items[i].host)})
                 /\ pc' = "returned"
                 /\ report'.valid = (Len(tv.errors) = 0)

ResolvedVariables(sd) ==
    IF files.toml.data.variables.kind = "object"
    THEN processVariables(files.toml.data.variables.entries, EmptySchema, sd).v
    ELSE <<>>

\* the text still holds a "${" after processValue with the resolved variables
StillHolds(text, sd, salt) ==
    LET r == processValue(text, ResolvedVariables(sd), EmptySchema, sd, salt)
    IN  ~r.threw /\ Includes(r.v, <<"$", "{">>)

\* a descriptor of well-formed sections whose variables, if any, are processed
\* without an exception
Resolvable(sd) ==
    /\ tv.hasPath
    /\ files.toml.state = "ok"
    /\ files.toml.data.hasConfig
    /\ files.toml.data.domains.kind # "notArray"
    /\ files.toml.data.mounts.kind # "notArray"
    /\ files.toml.data.variables.kind # "notObject"
    /\ files.toml.data.variables.kind = "object" =>
          ~processVariables(files.toml.data.variables.entries, EmptySchema, sd).threw

\* how many warnings with this code the step adds for the index / for the key
AddedAt(code, idx) == CountAt(tv'.warnings, code, idx) - CountAt(tv.warnings, code, idx)

AddedFor(code, key) ==
    CountNamed(tv'.warnings, {code}, key) - CountNamed(tv.warnings, {code}, key)

\* C18: whenever a domain host, a string env value, a mount filePath or content,
\* or a variable value still contains a "${...}" after resolution with the
\* resolved variable map, validate() adds a warning for that field, for every
\* descriptor (with or without a variables section, with or without a ':' in
\* the fragment), and adds no error for it
C18_UnresolvedFieldsWarned ==
    [][(tv'.calls # tv.calls /\ Resolvable(seed')) =>
        LET data == files.toml.data
        IN  /\ \A i \in 1..Len(data.domains.items) :
                  (data.domains.items[i].host.t = "string"
                     /\ StillHolds(data.domains.items[i].host.s, seed', 1000 + 64 * i))
                  => AddedAt("hostUnresolved", i - 1) = 1
            /\ data.env.kind = "array" =>
                  \A i \in 1..Len(data.env.items) :
                      (data.env.items[i].t = "string"
                         /\ StillHolds(data.env.items[i].s, seed', 2000 + 64 * i))
                      => AddedAt("envUnresolved", i - 1) = 1
            /\ data.env.kind = "object" =>
                  \A i \in 1..Len(data.env.items) :
                      (data.env.items[i].v.t = "string"
                         /\ StillHolds(data.env.items[i].v.s, seed', 2000 + 64 * i))
                      => AddedFor("envKeyUnresolved", data.env.items[i].k) = 1
            /\ \A i \in 1..Len(data.mounts.items) :
                  /\ (data.mounts.items[i].filePath.t = "string"
                         /\ StillHolds(data.mounts.items[i].filePath.s, seed', 3000 + 64 * i))
                      => AddedAt("mountFilePathUnresolved", i - 1) = 1
                  /\ (data.mounts.items[i].content.t = "string"
                         /\ StillHolds(data.mounts.items[i].content.s, seed', 3032 + 64 * i))
                      => AddedAt("mountContentUnresolved", i - 1) = 1
            /\ \A e \in 1..Len(ResolvedVariables(seed')) :
                  (ResolvedVariables(seed')[e].v.t = "string"
                     /\ Includes(ResolvedVariables(seed')[e].v.s, <<"$", "{">>))
                  => AddedFor("variableUnresolved", ResolvedVariables(seed')[e].k) >= 1
            /\ CountCode(tv'.errors, "failedToProcessVariables")
                  = CountCode(tv.errors, "failedToProcessVariables")]_vars

----------------------------------------------------------------------------
(* Properties of the checks of DockerComposeValidator (specification Spec) *)

\* the manifest was parsed and its services are walked
ServicesWalked ==
    /\ dc.hasPath
    /\ files.compose.state = "ok"
    /\ Len(files.compose.services) > 0

\* the port entry is written as a host:container mapping: a string
\* "<published>:<target>", a host IP before it or not, or an object with both
\* the published and the target field
WrittenAsMapping(port) ==
    IF port.t = "string"
    THEN LET parts == SplitColon(port.s)
         IN  /\ Len(parts) \in {2, 3}
             /\ \A k \in (Len(parts) - 1)..Len(parts) :
                    parts[k] # <<>> /\ IsDigit(parts[k][1])
    ELSE port.t = "object" /\ Truthy(port.published) /\ Truthy(port.target)

\* how many port-format errors the list holds for entry idx of the service
PortErrors(msgs, name, idx) ==
    Cardinality({k \in 1..Len(msgs) : /\ msgs[k].code \in {"portMapping", "portPublished"}
                                      /\ msgs[k].idx = idx
                                      /\ msgs[k].text = name})

\* C14: DockerComposeValidator reports an error for every service port entry
\* written as a host:container mapping, a leading host IP included, and no
\* port-format error for a bare container-side port such as "80"
C14_PortMappingsReported ==
    [][(dc'.calls # dc.calls /\ ServicesWalked) =>
        \A s \in 1..Len(files.compose.services) :
            LET service == files.compose.services[s]
            IN  service.ports.kind = "list" =>
                    \A i \in 1..Len(service.ports.items) :
                        PortErrors(dc'.errors, service.name, i - 1)
                            - PortErrors(dc.errors, service.name, i - 1)
                        = IF WrittenAsMapping(service.ports.items[i]) THEN 1 ELSE 0]_vars

\* the codes of the errors about networks
NetworkCodes ==
    {"serviceDokployNetwork", "serviceExplicitNetwork", "rootDokployNetwork", "rootNetworks"}

\* what a validate() step adds about container names and networks, Named(_)
\* telling the services whose container name is to be reported
ContainerNamesAndNetworks(Named(_)) ==
    (dc'.calls # dc.calls /\ ServicesWalked) =>
        /\ \A s \in 1..Len(files.compose.services) :
              LET service == files.compose.services[s]
              IN  /\ CountNamed(dc'.errors, {"containerName"}, service.name)
                         - CountNamed(dc.errors, {"containerName"}, service.name)
                     = IF Named(service) THEN 1 ELSE 0
                  /\ CountNamed(dc'.errors, NetworkCodes, service.name)
                         - CountNamed(dc.errors, NetworkCodes, service.name)
                     = IF service.networks.kind # "absent" /\ Len(service.networks.names) > 0
                       THEN 1 ELSE 0
        /\ ~files.compose.networks.present =>
              Cardinality({k \in 1..Len(dc'.errors) : dc'.errors[k].code \in NetworkCodes})
              - Cardinality({k \in 1..Len(dc.errors) : dc.errors[k].code \in NetworkCodes})
              = Cardinality({s \in 1..Len(files.compose.services) :
                               /\ files.compose.services[s].networks.kind # "absent"
                               /\ Len(files.compose.services[s].networks.names) > 0})

----------------------------------------------------------------------------
(* Properties of calls that follow one another (specification Spec) *)

\* C19: the validators keep no state across calls: a validate() that follows
\* another on the same instance, with the files unchanged and the same random
\* draws, returns the errors and warnings of the report before it, and the
\* report returned before still reads as it did
C19_SecondCallSameReport ==
    [][( /\ tv'.calls # tv.calls \/ dc'.calls # dc.calls
         /\ report.by # "none"
         /\ pc' = "returned"
         /\ seed' = seed )
       => /\ report'.errors = report.errors
          /\ report'.warnings = report.warnings
          /\ report'.earlier # <<>>
          /\ report'.earlier[Len(report'.earlier)]
               = [valid |-> report.valid, errors |-> report.errors,
                  warnings |-> report.warnings]]_vars

\* the lists of a check group run by itself
NoFindings == [errors |-> <<>>, warnings |-> <<>>]

\* the validate() step adds every finding of the lists found
AllAdded(found) ==
    /\ \A k \in 1..Len(found.errors) :
          CountOf(tv'.errors, found.errors[k]) - CountOf(tv.errors, found.errors[k])
             >= CountOf(found.errors, found.errors[k])
    /\ \A k \in 1..Len(found.warnings) :
          CountOf(tv'.warnings, found.warnings[k]) - CountOf(tv.warnings, found.warnings[k])
             >= CountOf(found.warnings, found.warnings[k])

\* C20: validateTemplate never aborts early: the env, mount and variable check
\* groups report their findings whatever an earlier group recorded (a domains
\* section that is no array, say); only a descriptor without a config section
\* records one error and runs no further descriptor check
C20_LaterGroupsAlwaysRun ==
    [][(tv'.calls # tv.calls /\ tv.hasPath /\ files.toml.state = "ok") =>
        LET data   == files.toml.data
            before == [errors |-> tv.errors, warnings |-> tv.warnings]
            parsed == parseComposeServices(before, files.compose).L
        IN  IF data.hasConfig
            THEN /\ AllAdded(validateEnv(NoFindings, data.env))
                 /\ AllAdded(validateMounts(NoFindings, data.mounts))
                 /\ data.variables.kind = "notObject" =>
                       AllAdded(error(NoFindings, Msg("variablesNotObject", 0, <<>>, <<>>)))
                 /\ data.variables.kind = "object" =>
                       AllAdded(validateVariableEntries(NoFindings, data.variables.entries,
                                                        1, seed'))
            ELSE /\ tv'.errors = Append(parsed.errors, Msg("missingConfigSection", 0, <<>>, <<>>))
                 /\ tv'.warnings = parsed.warnings]_vars

----------------------------------------------------------------------------
(* The two forms of config.env (specification Spec) *)

\* the sequence of "KEY=VALUE" strings that declares the pairs of a mapping
AsSequence(entries) ==
    ArrayOf([i \in 1..Len(entries) |-> Str(entries[i].k \o <<"=">> \o entries[i].v.s)])

\* C21: for any finite set of key/value pairs, the empty set included,
\* validating the env declared as a mapping and validating it as the sequence
\* of "KEY=VALUE" strings give the same validity, the same number of errors
\* and the same number of warnings
C21_MappingAsSequence ==
    [][( /\ tv'.calls # tv.calls
         /\ tv.hasPath
         /\ files.toml.state = "ok"
         /\ files.toml.data.hasConfig
         /\ files.toml.data.env.kind = "object" )
       => LET other == templateValidate(tv,
                          [files EXCEPT !.toml.data.env = AsSequence(files.toml.data.env.items)],
                          seed')
          IN  /\ other.valid = (pc' = "returned" /\ report'.valid)
              /\ Len(other.L.errors) = Len(tv'.errors)
              /\ Len(other.L.warnings) = Len(tv'.warnings)]_vars

----------------------------------------------------------------------------
(* Runs under different outcomes of the random source (specification Spec) *)

\* C24: validation is deterministic up to helper randomness: TemplateValidator
\* .validate on the same descriptor and manifest returns, under any other
\* outcome of the random generators and the clock, the same valid flag, the
\* same errors and the same number of warnings
C24_SameReportUnderAnyOutcome ==
    [][(tv'.calls # tv.calls /\ tv.hasPath) =>
        \A sd \in Seeds :
            LET other == templateValidate(tv, files, sd)
            IN  /\ other.valid = (pc' = "returned" /\ report'.valid)
                /\ other.L.errors = tv'.errors
                /\ Len(other.L.warnings) = Len(tv'.warnings)]_vars

----------------------------------------------------------------------------
(* The findings of each check group of validateTemplate (specification Spec) *)

\* how many errors with this code the step adds for the index
ErrorsAddedAt(code, idx) == CountAt(tv'.errors, code, idx) - CountAt(tv.errors, code, idx)

\* the port, a number or a string, is an integer in 1..65535 once the underscores
\* are stripped from the string and its leading integer is parsed
PortInRange(port) ==
    LET parsed == IF port.t = "string" THEN parseInt(StripUnderscores(port.s)) ELSE Num(port.n)
    IN  ~parsed.nan /\ parsed.n >= 1 /\ parsed.n <= 65535

\* C25: for each domain declaration a missing or empty serviceName adds an
\* error and an absent port adds an error, while a present port that is no
\* integer in 1..65535 after stripping underscores and integer parsing adds
\* exactly one warning and never an error
C25_DomainRequiredFieldsAndPort ==
    [][(tv'.calls # tv.calls /\ DomainsWalked) =>
        \A i \in 1..Len(files.toml.data.domains.items) :
            LET domain == files.toml.data.domains.items[i]
            IN  /\ ErrorsAddedAt("domainMissingServiceName", i - 1)
                     = IF domain.serviceName.t = "undefined" \/ domain.serviceName = Str(<<>>)
                       THEN 1 ELSE 0
                /\ ErrorsAddedAt("domainMissingPort", i - 1)
                     = IF domain.port.t = "undefined" THEN 1 ELSE 0
                /\ AddedAt("domainPortInvalid", i - 1)
                     = IF domain.port.t \in {"number", "string"} /\ ~PortInRange(domain.port)
                       THEN 1 ELSE 0]_vars

\* a domain with an empty serviceName and the port 0: the report holds the error
\* about the serviceName and one warning about the port
C25_EmptyNameAndPortZero ==
    /\ pc = "returned"
    /\ report.by = "template"
    /\ tv.calls = 1
    /\ DomainsWalked
    /\ Len(files.toml.data.domains.items) = 1
    /\ files.toml.data.domains.items[1].serviceName = Str(<<>>)
    /\ files.toml.data.domains.items[1].port = NumV(0)
    /\ CountAt(report.errors, "domainMissingServiceName", 0) = 1
    /\ CountAt(report.errors, "domainMissingPort", 0) = 0
    /\ CountAt(report.warnings, "domainPortInvalid", 0) = 1

\* what the env check is to add for one entry of an env sequence:
\* <<warnings "no KEY=VALUE", warnings "empty object", errors>>
EnvEntryFindings(env) ==
    CASE env.t = "string"               -> IF Includes(env.s, <<"=">>) THEN <<0, 0, 0>> ELSE <<1, 0, 0>>
      [] env.t = "object"               -> IF env.j = <<"{", "}">> THEN <<0, 1, 0>> ELSE <<0, 0, 0>>
      [] env.t \in {"boolean", "number"} -> <<0, 0, 0>>
      [] OTHER                          -> <<0, 0, 1>>

\* C26: for each entry of an env sequence a string with '=' adds nothing, a
\* string without '=' one warning, a non-empty object nothing, an empty object
\* one warning, a boolean or a number nothing and any other shape, null say,
\* one error; an env that is neither a sequence nor a mapping adds one error
C26_EnvEntryFindings ==
    [][(tv'.calls # tv.calls /\ tv.hasPath /\ files.toml.state = "ok"
          /\ files.toml.data.hasConfig) =>
        LET env == files.toml.data.env
        IN  /\ env.kind = "array" =>
                  \A i \in 1..Len(env.items) :
                      <<AddedAt("envNotKeyValue", i - 1), AddedAt("envEmptyObjectItem", i - 1),
                        ErrorsAddedAt("envItemBadType", i - 1)>> = EnvEntryFindings(env.items[i])
            /\ ErrorsAddedAt("envBadType", 0) = IF env.kind = "other" THEN 1 ELSE 0]_vars

\* how many errors with one of two codes the step adds for the index
ErrorsAddedOf(code1, code2, idx) == ErrorsAddedAt(code1, idx) + ErrorsAddedAt(code2, idx)

\* C27: for each mount declaration the validator adds an error when filePath is
\* missing, empty or no string, and an error when content is missing or no
\* string; a mount with a non-empty string filePath and a string content, the
\* empty string included, adds no error
C27_MountFindings ==
    [][(tv'.calls # tv.calls /\ tv.hasPath /\ files.toml.state = "ok"
          /\ files.toml.data.hasConfig /\ files.toml.data.mounts.kind = "array") =>
        \A i \in 1..Len(files.toml.data.mounts.items) :
            LET mount == files.toml.data.mounts.items[i]
            IN  /\ ErrorsAddedOf("mountMissingFilePath", "mountFilePathNotString", i - 1)
                     = IF mount.filePath.t = "string" /\ mount.filePath.s # <<>> THEN 0 ELSE 1
                /\ ErrorsAddedOf("mountMissingContent", "mountContentNotString", i - 1)
                     = IF mount.content.t = "string" THEN 0 ELSE 1]_vars

\* validateHelper on an empty pair of lists adds no error and at most one
\* warning, and it warns only about a non-numeric first parameter of
\* base64/password/hash or an unparsable datetime of timestampms/timestamps
HelperOnlyWarns(helper, ctx) ==
    \A sd \in Seeds :
        LET found  == validateHelper(NoFindings, helper, ctx, sd)
            name   == SplitColon(helper)[1]
            params == Tail(SplitColon(helper))
        IN  /\ found.errors = <<>>
            /\ Len(found.warnings) <= 1
            /\ found.warnings # <<>> =>
                  \/ /\ found.warnings[1].code = "helperInvalidParameter"
                     /\ name \in {W_base64, W_password, W_hash}
                     /\ params # <<>> /\ parseInt(params[1]).nan
                  \/ /\ found.warnings[1].code = "helperInvalidDatetime"
                     /\ name \in {W_timestampms, W_timestamps}
                     /\ DateGetTime(JoinColon(params), sd).nan

\* C28: the variable-declaration check adds one error per variable whose value
\* is no string, or one error when variables is no plain object, and the
\* helper-name check adds no error and flags no name that is not a helper tag:
\* it only warns about a non-numeric length of base64/password/hash and about
\* an unparsable datetime of timestampms/timestamps
C28_VariableAndHelperFindings ==
    [][(tv'.calls # tv.calls /\ tv.hasPath /\ files.toml.state = "ok"
          /\ files.toml.data.hasConfig) =>
        LET variables == files.toml.data.variables
        IN  /\ ErrorsAddedAt("variablesNotObject", 0)
                 = IF variables.kind = "notObject" THEN 1 ELSE 0
            /\ variables.kind = "object" =>
                  \A i \in 1..Len(variables.entries) :
                      LET e == variables.entries[i]
                      IN  /\ CountNamed(tv'.errors, {"variableNotString"}, e.k)
                               - CountNamed(tv.errors, {"variableNotString"}, e.k)
                               = IF TypeOf(e.v) # "string" THEN 1 ELSE 0
                          /\ TypeOf(e.v) = "string" =>
                                \A j \in 1..Len(MatchAll(e.v.s, 1)) :
                                    HelperOnlyWarns(Capture(MatchAll(e.v.s, 1)[j]), e.k)]_vars

----------------------------------------------------------------------------
(* A manifest without services (specification Spec) *)

\* the manifest does not parse to an object with a non-empty service map
NoServiceMap == files.compose.state # "ok" \/ files.compose.services = <<>>

\* the findings about the manifest as a whole
ManifestCodes ==
    {"composeNotFound", "composeInvalidStructure", "composeParseFailed", "composeNoServices",
     "noServices"}

\* the findings of the checks that read the manifest's services
ManifestDependentCodes ==
    {"containerName", "portMapping", "portPublished", "serviceNameNotLowercase",
     "serviceNameUnderscore", "domainServiceNotFound"} \cup NetworkCodes

\* how many messages of the list have one of the codes
CountIn(msgs, codes) == Cardinality({k \in 1..Len(msgs) : msgs[k].code \in codes})

NotAboutManifest(m) == m.code \notin ManifestCodes

\* C29: when the manifest does not parse to an object with a non-empty service
\* map, validate() records exactly one error for it and no finding of a
\* manifest-dependent check (container_name, network, port, service name,
\* domain serviceName), and TemplateValidator still adds every finding of the
\* descriptor-only checks
C29_NoServiceMapOneError ==
    [][NoServiceMap =>
        /\ (dc'.calls # dc.calls /\ dc.hasPath) =>
              /\ CountIn(dc'.errors, ManifestCodes) - CountIn(dc.errors, ManifestCodes) = 1
              /\ Len(dc'.errors) = Len(dc.errors) + 1
              /\ dc'.warnings = dc.warnings
        /\ (tv'.calls # tv.calls /\ tv.hasPath) =>
              LET alone == validateTemplate([errors |-> tv.errors, warnings |-> tv.warnings],
                                            files.toml, <<>>, seed').L
              IN  /\ CountIn(tv'.errors, ManifestCodes) - CountIn(tv.errors, ManifestCodes) = 1
                  /\ CountIn(tv'.warnings, ManifestCodes) = CountIn(tv.warnings, ManifestCodes)
                  /\ CountIn(tv'.errors, ManifestDependentCodes)
                       = CountIn(tv.errors, ManifestDependentCodes)
                  /\ SelectSeq(tv'.errors, NotAboutManifest)
                       = SelectSeq(alone.errors, NotAboutManifest)
                  /\ SelectSeq(tv'.warnings, NotAboutManifest)
                       = SelectSeq(alone.warnings, NotAboutManifest)]_vars

----------------------------------------------------------------------------
(* Helper tags that are also keys of the variable map (specification SpecValue) *)

\* the value has one expression, the helper tag, and the map has the tag as a key
TagIsKey(tag) ==
    /\ MatchAll(argValue, 1) = <<Expr(tag)>>
    /\ HasKey(argVariables, tag)

\* C30: in processValue a helper tag takes precedence over a variable of the
\* same name: for a map that has a key equal to a helper tag, "${tag}" resolves
\* to the value the helper generates, the one processValue gives without any
\* variable, and never to the map's value for that key
C30_HelperBeforeVariable ==
    pc = "processValue" =>
        \A tag \in validHelpers :
            TagIsKey(tag) =>
                /\ result = processValue(argValue, <<>>, argSchema, seed, 0)
                /\ argValue = Expr(tag) =>
                      /\ ~result.threw
                      /\ result.v # ToStr(OwnValue(argVariables, tag))

\* "${password}" with a map that has the key password gave a generated password
C30_PasswordKeyGenerated ==
    /\ pc = "processValue"
    /\ argValue = Expr(W_password)
    /\ TagIsKey(W_password)
    /\ ~result.threw
    /\ Len(result.v) = 16

====
